---- MODULE Spec2Model ----
(***************************************************************************)
(* A model of srch, a command line tool that searches JSON documents for   *)
(* fields by ancestor path, field name and value predicate.                *)
(*                                                                         *)
(* Rust strings are modelled as sequences of one-character strings, so     *)
(* that splitting, joining, prefix stripping and trimming are computed     *)
(* character by character as the standard library does.                    *)
(***************************************************************************)
EXTENDS Integers, Sequences, FiniteSets, TLC

VARIABLES
    pc,                   \* position of the run: "start", then the name of the step taken
    search_path,          \* Cli::search_path, the path expression given on the command line
    field_path_separator, \* Cli::field_path_separator / SearchContext::field_path_separator
    path_result,          \* what parse_search_path returned
    search_term,          \* Cli::search_term (SearchContext::search_regex.as_str())
    term_result,          \* what NumericSearchTerm::parse_as_single returned
    json_value,           \* the decoded document handed to search_json_value
    field_path_parts,     \* the ancestor specification
    field_name,           \* the target field name
    current_path,         \* the accumulated path handed to check_object_match
    single,               \* SearchContext::single
    hide_value,           \* SearchContext::hide_value
    numeric_search,       \* SearchContext::numeric_search
    results,              \* what the search (or the field check) returned
    search_term_raw,      \* main: the query given on the command line
    json_files,           \* Cli::json_files, each with what reading it gives
    json_string,          \* Cli::json_string
    stdin,                \* what reading the standard input gives
    path_output,          \* Cli::path_output
    file_index,           \* handle_file_input: the number of files handled so far
    stdout,               \* the lines printed with println!
    stderr,               \* the messages printed with eprintln!
    reads,                \* the inputs read so far: file paths and "stdin"
    exit_code,            \* the code given to std::process::exit, if it was called
    result,               \* format_text_output: the SearchResult to render
    source_file,          \* format_text_output: the file the result comes from, if any
    formatted,            \* what format_text_output returned
    input_text,           \* remove_whitespace: the input text
    stripped,             \* what remove_whitespace returned
    events,               \* the calls made by the search, in the order they were made
    stack,                \* the calls of search_object and search_array in progress
    returned              \* what the call that just ended returned, until it is received

\* the command line's inputs and the effects of the run on the outside
ioVars == <<search_term_raw, json_files, json_string, stdin, path_output,
            file_index, stdout, stderr, reads, exit_code>>

\* the inputs and outputs of the functions that are run on their own
unitVars == <<result, source_file, formatted, input_text, stripped, events, stack,
             returned>>

vars == <<pc, search_path, field_path_separator, path_result, search_term,
          term_result, json_value, field_path_parts, field_name, current_path,
          single, hide_value, numeric_search, results, search_term_raw,
          json_files, json_string, stdin, path_output, file_index, stdout,
          stderr, reads, exit_code, result, source_file, formatted,
          input_text, stripped, events, stack, returned>>

(***************************************************************************)
(* Bounds of the model.                                                    *)
(***************************************************************************)
MaxExprLen == 5      \* longest search path expression
MaxSepLen == 2       \* longest field path separator
MaxTermLen == 6      \* longest search term handed to the numeric parser
MaxNodes == 5        \* most nodes (containers and scalars) of a document
MaxCheckSpecLen == 3 \* longest ancestor specification of a single field check
MaxPathLen == 4      \* longest accumulated path of a single field check
MaxOperand == 2      \* largest operand of a generated numeric term
MaxFiles == 3        \* most files given on the command line
MaxJsonPathLen == 2  \* most segments of a rendered result's path
MaxTextLen == 4      \* longest text given to remove_whitespace
MaxWalkNodes == 5    \* most nodes of a document searched call by call
MaxFairNodes == 4    \* most nodes of a document whose search is shown to end

(***************************************************************************)
(* Strings.                                                                *)
(***************************************************************************)
None == [some |-> FALSE]
Some(x) == [some |-> TRUE, val |-> x]

\* all strings over the alphabet A of length at most n
StringsUpTo(A, n) == UNION {[1..k -> A] : k \in 0..n}

\* s[from..to) in Rust's 0-based byte offsets, as a 1-based subsequence
Slice(s, from, to) == SubSeq(s, from + 1, to)

\* does the pattern p occur in s starting at 0-based offset i
OccursAt(s, p, i) ==
    /\ i + Len(p) <= Len(s)
    /\ \A j \in 1..Len(p) : s[i + j] = p[j]

StartsWith(s, p) == OccursAt(s, p, 0)

EndsWith(s, p) == Len(p) <= Len(s) /\ OccursAt(s, p, Len(s) - Len(p))

Occurs(s, p) == \E i \in 0..Len(s) : OccursAt(s, p, i)

\* str::find: the offset of the first occurrence of p in s
Find(s, p) ==
    LET occ == {i \in 0..Len(s) : OccursAt(s, p, i)}
    IN  IF occ = {} THEN None
        ELSE Some(CHOOSE i \in occ : \A j \in occ : i <= j)

\* str::strip_prefix
StripPrefix(s, p) ==
    IF StartsWith(s, p) THEN Some(Slice(s, Len(p), Len(s))) ELSE None

\* str::split_once in place of rsplit_once: split around the first occurrence
SplitOnceFirst(s, p) ==
    LET occ == {i \in 0..Len(s) : OccursAt(s, p, i)}
    IN  IF occ = {} THEN None
        ELSE LET i == CHOOSE x \in occ : \A y \in occ : x <= y
             IN  Some(<<Slice(s, 0, i), Slice(s, i + Len(p), Len(s))>>)

\* str::rsplit_once: split around the last occurrence of the pattern
RSplitOnce(s, p) ==
    LET occ == {i \in 0..Len(s) : OccursAt(s, p, i)}
    IN  IF occ = {} THEN None
        ELSE LET i == CHOOSE x \in occ : \A y \in occ : y <= x
             IN  Some(<<Slice(s, 0, i), Slice(s, i + Len(p), Len(s))>>)

\* a split that drops the empty pieces
RECURSIVE SplitSkipEmpty(_, _)
SplitSkipEmpty(s, p) ==
    IF p = <<>>
    THEN [k \in 1..Len(s) |-> <<s[k]>>]
    ELSE LET f == Find(s, p)
         IN  IF f.some
             THEN (IF f.val = 0 THEN <<>> ELSE <<Slice(s, 0, f.val)>>)
                     \o SplitSkipEmpty(Slice(s, f.val + Len(p), Len(s)), p)
             ELSE IF s = <<>> THEN <<>> ELSE <<s>>

\* str::split: cut at every occurrence, left to right, occurrences not
\* overlapping; the empty pattern occurs before and after every character
RECURSIVE Split(_, _)
Split(s, p) ==
    IF p = <<>>
    THEN <<<<>>>> \o [k \in 1..Len(s) |-> <<s[k]>>] \o <<<<>>>>
    ELSE LET f == Find(s, p)
         IN  IF f.some
             THEN <<Slice(s, 0, f.val)>> \o Split(Slice(s, f.val + Len(p), Len(s)), p)
             ELSE <<s>>

\* [String]::join
RECURSIVE Join(_, _)
Join(parts, sep) ==
    IF Len(parts) = 0 THEN <<>>
    ELSE IF Len(parts) = 1 THEN parts[1]
    ELSE parts[1] \o sep \o Join(Tail(parts), sep)

(***************************************************************************)
(* syntax.rs: parse_search_path                                            *)
(***************************************************************************)
MalformedPath == "Invalid search term format. Field name or expected value is empty."

Ok(parts, name) == [ok |-> TRUE, parts |-> parts, name |-> name]
Err(msg) == [ok |-> FALSE, err |-> msg]

\* parse_search_path without the check of line 6: an empty field name passes
ParseSearchPathNoNameCheck(path, sep) ==
    LET r == RSplitOnce(path, sep)
    IN  IF r.some
        THEN Ok(Split(r.val[1], sep), r.val[2])
        ELSE IF path # <<>>
             THEN Ok(<<>>, path)
             ELSE Err(MalformedPath)

\* parse_search_path that drops the empty ancestor segments
ParseSearchPathNormalised(path, sep) ==
    LET r == RSplitOnce(path, sep)
    IN  IF r.some
        THEN IF r.val[2] # <<>>
             THEN Ok(SelectSeq(Split(r.val[1], sep), LAMBDA part : part # <<>>), r.val[2])
             ELSE Err(MalformedPath)
        ELSE IF path # <<>>
             THEN Ok(<<>>, path)
             ELSE Err(MalformedPath)

ParseSearchPath(path, sep) ==
    LET r == RSplitOnce(path, sep)
    IN  IF r.some
        THEN LET field_path_str == r.val[1]
                 name == r.val[2]
             IN  IF name # <<>>
                 THEN Ok(Split(field_path_str, sep), name)
                 ELSE Err(MalformedPath)
        ELSE IF path # <<>>
             THEN Ok(<<>>, path)
             ELSE Err(MalformedPath)

(***************************************************************************)
(* Numbers.  The digits, and str::parse::<f64> on the strings the model    *)
(* draws: an optional minus sign followed by one or more decimal digits    *)
(* is a number, every other string over the model's alphabets is not.     *)
(* The value is kept as an integer, which f64 holds exactly at this size.  *)
(***************************************************************************)
Digits == <<"0", "1", "2", "3", "4", "5", "6", "7", "8", "9">>

IsDigit(c) == \E d \in 1..Len(Digits) : Digits[d] = c

DigitValue(c) == (CHOOSE d \in 1..Len(Digits) : Digits[d] = c) - 1

RECURSIVE DigitsValue(_)
DigitsValue(s) ==
    IF s = <<>> THEN 0
    ELSE DigitsValue(SubSeq(s, 1, Len(s) - 1)) * Len(Digits) + DigitValue(s[Len(s)])

AllDigits(s) == s # <<>> /\ \A k \in 1..Len(s) : IsDigit(s[k])

\* num_str.parse::<f64>(): Ok(value) as Some(value), Err as None
ParseF64(s) ==
    IF AllDigits(s) THEN Some(DigitsValue(s))
    ELSE IF s # <<>> /\ s[1] = "-" /\ AllDigits(Tail(s)) THEN Some(0 - DigitsValue(Tail(s)))
    ELSE None

(***************************************************************************)
(* syntax.rs: ComparisonOperator and NumericSearchTerm                     *)
(***************************************************************************)
\* ComparisonOperator::from_str with "<=" and ">=" read as "<" and ">"
OperatorFromStrNoEq(op_str) ==
    IF op_str \in {<<"<">>, <<"<", "=">>} THEN Some("LessThan")
    ELSE IF op_str \in {<<">">>, <<">", "=">>} THEN Some("GreaterThan")
    ELSE IF op_str = <<"=", "=">> THEN Some("Equal")
    ELSE None

\* ComparisonOperator::from_str
OperatorFromStr(op_str) ==
    IF op_str = <<"<">> THEN Some("LessThan")
    ELSE IF op_str = <<"<", "=">> THEN Some("LessThanOrEqual")
    ELSE IF op_str = <<">">> THEN Some("GreaterThan")
    ELSE IF op_str = <<">", "=">> THEN Some("GreaterThanOrEqual")
    ELSE IF op_str = <<"=", "=">> THEN Some("Equal")
    ELSE None

SingleComparison(op, n) == [kind |-> "SingleComparison", op |-> op, num |-> n]

\* the operators parse_as_single tries, in its order
SingleOps == << <<"<", "=">>, <<">", "=">>, <<"<">>, <<">">>, <<"=", "=">> >>

\* the loop of parse_as_single from the k-th operator on
RECURSIVE ParseAsSingleFrom(_, _)
ParseAsSingleFrom(term, k) ==
    IF k > Len(SingleOps) THEN None
    ELSE LET op_str == SingleOps[k]
             num_str == StripPrefix(term, op_str)
             num_value == IF num_str.some THEN ParseF64(num_str.val) ELSE None
             operator == OperatorFromStr(op_str)
         IN  IF num_str.some /\ num_value.some /\ operator.some
             THEN Some(SingleComparison(operator.val, num_value.val))
             ELSE ParseAsSingleFrom(term, k + 1)

\* NumericSearchTerm::parse_as_single
ParseAsSingle(term) == ParseAsSingleFrom(term, 1)

RangeComparison(op1, n1, op2, n2) ==
    [kind |-> "RangeComparison", op1 |-> op1, num1 |-> n1, op2 |-> op2, num2 |-> n2]

\* a slice whose bounds lie outside the string: the thread panics
Panicked == [some |-> FALSE, panicked |-> TRUE]

\* are from..to bounds that str indexing takes
SliceInBounds(s, from, to) == from <= to /\ to <= Len(s)

\* the operators parse_as_range tries, in its order
AsRangeOps == << <<"<", "=">>, <<">", "=">>, <<"<">>, <<">">> >>

\* the two loops of parse_as_range over the operators ops, from the i-th
\* first operator and the j-th second operator on
RECURSIVE ParseAsRangeOver(_, _, _, _)
ParseAsRangeOver(ops, term, i, j) ==
    IF i > Len(ops) THEN None
    ELSE LET op1_str == ops[i]
             rest1 == StripPrefix(term, op1_str)
         IN  IF ~rest1.some \/ j > Len(ops) THEN ParseAsRangeOver(ops, term, i + 1, 1)
             ELSE LET op2_str == ops[j]
                      num_str1_end_op2 == Find(rest1.val, op2_str)
                  IN  IF ~num_str1_end_op2.some THEN ParseAsRangeOver(ops, term, i, j + 1)
                      ELSE LET n == num_str1_end_op2.val
                               num_str1 == Slice(rest1.val, 0, n)
                               rest2 == Slice(rest1.val, n, Len(rest1.val))
                               num_str2 == Slice(rest2, Len(op2_str), Len(rest2))
                               num1 == ParseF64(num_str1)
                               num2 == ParseF64(num_str2)
                               op1 == OperatorFromStr(op1_str)
                               op2 == OperatorFromStr(op2_str)
                           IN  IF ~SliceInBounds(rest1.val, 0, n)
                                  \/ ~SliceInBounds(rest1.val, n, Len(rest1.val))
                                  \/ ~SliceInBounds(rest2, Len(op2_str), Len(rest2))
                               THEN Panicked
                               ELSE IF num1.some /\ num2.some /\ op1.some /\ op2.some
                               THEN Some(RangeComparison(op1.val, num1.val,
                                                         op2.val, num2.val))
                               ELSE ParseAsRangeOver(ops, term, i, j + 1)

\* parse_as_range trying "==" as well
ParseAsRangeWithEq(term) == ParseAsRangeOver(SingleOps, term, 1, 1)

\* NumericSearchTerm::parse_as_range
ParseAsRange(term) == ParseAsRangeOver(AsRangeOps, term, 1, 1)

\* from_search_term without the attempt at a single comparison
FromSearchTermRangeOnly(term) == ParseAsRange(term)

\* NumericSearchTerm::from_search_term
FromSearchTerm(term) ==
    LET range_term == ParseAsRange(term)
        single_term == ParseAsSingle(term)
    IN  IF range_term = Panicked THEN Panicked
        ELSE IF range_term.some THEN range_term
        ELSE IF single_term.some THEN single_term
        ELSE None

\* NumericSearchTerm::compare_single
CompareSingle(term, json_num) ==
    IF term.kind = "SingleComparison"
    THEN CASE term.op = "GreaterThan" -> json_num > term.num
           [] term.op = "LessThan" -> json_num < term.num
           [] term.op = "GreaterThanOrEqual" -> json_num >= term.num
           [] term.op = "LessThanOrEqual" -> json_num <= term.num
           [] term.op = "Equal" -> json_num = term.num
    ELSE FALSE

\* NumericSearchTerm::compare_range
CompareRange(term, json_num) ==
    IF term.kind = "RangeComparison"
    THEN /\ CompareSingle(SingleComparison(term.op1, term.num1), json_num)
         /\ CompareSingle(SingleComparison(term.op2, term.num2), json_num)
    ELSE FALSE

\* NumericSearchTerm::matches
Matches(term, json_num) ==
    IF term.kind = "SingleComparison" THEN CompareSingle(term, json_num)
    ELSE CompareRange(term, json_num)

(***************************************************************************)
(* serde_json::Value, and how parse.rs turns a value into text.            *)
(***************************************************************************)
JNull == [t |-> "Null"]
JBool(b) == [t |-> "Bool", b |-> b]
JNumber(n) == [t |-> "Number", n |-> n]
JString(s) == [t |-> "String", s |-> s]
JArray(items) == [t |-> "Array", items |-> items]
\* an object's entries in the order the map iterates them
JObject(entries) == [t |-> "Object", entries |-> entries]
Entry(key, value) == [key |-> key, value |-> value]

Quote == "\""

\* usize::to_string, also the digits of Number::to_string
RECURSIVE NatToString(_)
NatToString(n) ==
    IF n < Len(Digits) THEN <<Digits[n + 1]>>
    ELSE NatToString(n \div Len(Digits)) \o <<Digits[(n % Len(Digits)) + 1]>>

\* Number::to_string for the integers of the model
NumberToString(n) == IF n < 0 THEN <<"-">> \o NatToString(0 - n) ELSE NatToString(n)

\* the escaping of a string's characters in JSON text
RECURSIVE Escape(_)
Escape(s) ==
    IF s = <<>> THEN <<>>
    ELSE (IF s[1] \in {Quote, "\\"} THEN <<"\\", s[1]>> ELSE <<s[1]>>) \o Escape(Tail(s))

\* Value::to_string: the compact JSON text of a value
RECURSIVE Serialize(_)
RECURSIVE SerializeItems(_)
RECURSIVE SerializeEntries(_)
SerializeItems(items) ==
    IF items = <<>> THEN <<>>
    ELSE Serialize(items[1])
            \o (IF Len(items) > 1 THEN <<",">> ELSE <<>>)
            \o SerializeItems(Tail(items))

SerializeEntries(entries) ==
    IF entries = <<>> THEN <<>>
    ELSE <<Quote>> \o Escape(entries[1].key) \o <<Quote, ":">>
            \o Serialize(entries[1].value)
            \o (IF Len(entries) > 1 THEN <<",">> ELSE <<>>)
            \o SerializeEntries(Tail(entries))

Serialize(value) ==
    CASE value.t = "Null" -> <<"n", "u", "l", "l">>
      [] value.t = "Bool" ->
            IF value.b THEN <<"t", "r", "u", "e">> ELSE <<"f", "a", "l", "s", "e">>
      [] value.t = "Number" -> NumberToString(value.n)
      [] value.t = "String" -> <<Quote>> \o Escape(value.s) \o <<Quote>>
      [] value.t = "Array" -> <<"[">> \o SerializeItems(value.items) \o <<"]">>
      [] value.t = "Object" -> <<"{">> \o SerializeEntries(value.entries) \o <<"}">>

\* value_to_string
ValueToString(value) ==
    CASE value.t = "String" -> value.s
      [] value.t = "Bool" ->
            IF value.b THEN <<"t", "r", "u", "e">> ELSE <<"f", "a", "l", "s", "e">>
      [] value.t = "Number" -> NumberToString(value.n)
      [] OTHER -> Serialize(value)

\* str::trim_matches(c): drop every leading and every trailing c
RECURSIVE TrimStartMatches(_, _)
TrimStartMatches(s, c) ==
    IF s # <<>> /\ s[1] = c THEN TrimStartMatches(Tail(s), c) ELSE s

RECURSIVE TrimEndMatches(_, _)
TrimEndMatches(s, c) ==
    IF s # <<>> /\ s[Len(s)] = c
    THEN TrimEndMatches(SubSeq(s, 1, Len(s) - 1), c)
    ELSE s

TrimMatches(s, c) == TrimEndMatches(TrimStartMatches(s, c), c)

\* as_f64 that also reads the text of a string as a number
AsF64Lenient(value) ==
    IF value.t = "Number" THEN Some(value.n)
    ELSE IF value.t = "String" THEN ParseF64(value.s)
    ELSE None

\* Value::as_f64
AsF64(value) == IF value.t = "Number" THEN Some(value.n) ELSE None

\* Map::get that gives the first entry's value when the key is missing
MapGetOrFirst(entries, key) ==
    IF \E k \in 1..Len(entries) : entries[k].key = key
    THEN Some(entries[CHOOSE k \in 1..Len(entries) : entries[k].key = key].value)
    ELSE IF entries # <<>> THEN Some(entries[1].value)
    ELSE None

\* Map::get
RECURSIVE MapGet(_, _)
MapGet(entries, key) ==
    IF entries = <<>> THEN None
    ELSE IF entries[1].key = key THEN Some(entries[1].value)
    ELSE MapGet(Tail(entries), key)

\* Regex::is_match for a pattern of literal characters (none of the model's
\* term characters has a meaning in the regex syntax): the pattern is found
\* somewhere in the text
IsMatch(pattern, text) == Occurs(text, pattern)

(***************************************************************************)
(* parse.rs: the numeric term helpers                                      *)
(***************************************************************************)
OpLE == <<"<", "=">>
OpGE == <<">", "=">>
OpEQ == <<"=", "=">>
OpLT == <<"<">>
OpGT == <<">">>

\* the operators parse_numeric_search_term tries, in its order
NumericOps == <<OpLE, OpGE, OpEQ, OpLT, OpGT>>

\* the loop of parse_numeric_search_term from the k-th operator on
RECURSIVE ParseNumericSearchTermFrom(_, _)
ParseNumericSearchTermFrom(term, k) ==
    IF k > Len(NumericOps) THEN None
    ELSE LET num_str == StripPrefix(term, NumericOps[k])
         IN  IF num_str.some THEN Some(<<NumericOps[k], num_str.val>>)
             ELSE ParseNumericSearchTermFrom(term, k + 1)

\* parse_numeric_search_term
ParseNumericSearchTerm(term) == ParseNumericSearchTermFrom(term, 1)

\* the operators parse_numeric_range_term tries, in its order
RangeOps == <<OpLE, OpGE, OpLT, OpGT>>

\* the nested loops of parse_numeric_range_term from the pair (i, j) on
RECURSIVE ParseNumericRangeTermFrom(_, _, _)
ParseNumericRangeTermFrom(term, i, j) ==
    IF i > Len(RangeOps) THEN None
    ELSE IF j > Len(RangeOps) THEN ParseNumericRangeTermFrom(term, i + 1, 1)
    ELSE LET op1 == RangeOps[i]
             op2 == RangeOps[j]
             rest1 == StripPrefix(term, op1)
             at == IF rest1.some THEN Find(rest1.val, op2) ELSE None
         IN  IF rest1.some /\ at.some
             THEN LET num_str1 == Slice(rest1.val, 0, at.val)
                      rest2 == Slice(rest1.val, at.val, Len(rest1.val))
                      op_str2 == Slice(rest2, 0, Len(op2))
                      num_str2 == Slice(rest2, Len(op2), Len(rest2))
                  IN  IF num_str1 # <<>> /\ num_str2 # <<>>
                      THEN Some(<<<<op1, num_str1>>, <<op_str2, num_str2>>>>)
                      ELSE ParseNumericRangeTermFrom(term, i, j + 1)
             ELSE ParseNumericRangeTermFrom(term, i, j + 1)

\* parse_numeric_range_term
ParseNumericRangeTerm(term) == ParseNumericRangeTermFrom(term, 1, 1)

\* compare_numbers with ">=" and "<=" taken as strict
CompareNumbersStrict(json_num, target_num, op) ==
    CASE op = OpGT -> json_num > target_num
      [] op = OpLT -> json_num < target_num
      [] op = OpGE -> json_num > target_num
      [] op = OpLE -> json_num < target_num
      [] op = OpEQ -> json_num = target_num
      [] OTHER -> FALSE

\* compare_numbers
CompareNumbers(json_num, target_num, op) ==
    CASE op = OpGT -> json_num > target_num
      [] op = OpLT -> json_num < target_num
      [] op = OpGE -> json_num >= target_num
      [] op = OpLE -> json_num <= target_num
      [] op = OpEQ -> json_num = target_num
      [] OTHER -> FALSE

\* compare_number_range that is content with one of the two conditions
CompareNumberRangeEither(json_num, target_num1, op1, target_num2, op2) ==
    \/ CompareNumbers(json_num, target_num1, op1)
    \/ CompareNumbers(json_num, target_num2, op2)

\* compare_number_range
CompareNumberRange(json_num, target_num1, op1, target_num2, op2) ==
    LET condition1 == CompareNumbers(json_num, target_num1, op1)
        condition2 == CompareNumbers(json_num, target_num2, op2)
    IN  condition1 /\ condition2

(***************************************************************************)
(* parse.rs: SearchContext and check_object_match                          *)
(***************************************************************************)
SearchContext(regex, sgl, hide, sep, numeric) ==
    [search_regex |-> regex, single |-> sgl, hide_value |-> hide,
     field_path_separator |-> sep, numeric_search |-> numeric]

\* the while loop of check_object_match: the cursor into field_path_parts
\* once the cursor into current_path stops
RECURSIVE PathCursor(_, _, _, _)
PathCursor(path, parts, current_path_index, field_path_index) ==
    IF current_path_index < Len(path) /\ field_path_index < Len(parts)
    THEN PathCursor(path, parts, current_path_index + 1,
                    IF path[current_path_index + 1] = parts[field_path_index + 1]
                    THEN field_path_index + 1
                    ELSE field_path_index)
    ELSE field_path_index

\* a matcher that wants the accumulated path to be the specification itself
PathMatchesExact(parts, path) == parts = <<>> \/ parts = path

\* a matcher that takes the empty specification for the root only
PathMatchesRootOnly(parts, path) ==
    IF parts # <<>> THEN PathCursor(path, parts, 0, 0) = Len(parts) ELSE path = <<>>

\* path_matches of check_object_match
PathMatches(parts, path) ==
    IF parts # <<>> THEN PathCursor(path, parts, 0, 0) = Len(parts) ELSE TRUE

\* full_path of check_object_match with the separator also before a root field
FullPathLeadingSep(path, name, sep) == Join(path, sep) \o sep \o name

\* full_path of check_object_match
FullPath(path, name, sep) ==
    Join(path, sep) \o (IF path = <<>> THEN <<>> ELSE sep) \o name

\* output_string of check_object_match
OutputString(path, name, value, ctx) ==
    LET full_path == FullPath(path, name, ctx.field_path_separator)
    IN  IF ctx.hide_value THEN full_path
        ELSE full_path \o <<":", " ">> \o TrimMatches(ValueToString(value), Quote)

\* the single comparison of check_object_match: does the term, read as one
\* operator and a number, hold of the value
SingleTermHolds(value, ctx) ==
    LET single_term == ParseNumericSearchTerm(ctx.search_regex)
    IN  /\ single_term.some
        /\ ParseF64(single_term.val[2]).some
        /\ AsF64(value).some
        /\ CompareNumbers(AsF64(value).val, ParseF64(single_term.val[2]).val,
                          single_term.val[1])

\* the conditions of check_object_match under which a result is pushed
ValueMatches(value, ctx) ==
    IF ctx.numeric_search
    THEN LET range == ParseNumericRangeTerm(ctx.search_regex)
         IN  IF range.some
             THEN LET target_num1 == ParseF64(range.val[1][2])
                      target_num2 == ParseF64(range.val[2][2])
                      json_num == AsF64(value)
                  IN  IF target_num1.some /\ target_num2.some /\ json_num.some
                      THEN CompareNumberRange(json_num.val, target_num1.val, range.val[1][1],
                                              target_num2.val, range.val[2][1])
                      ELSE SingleTermHolds(value, ctx)
             ELSE SingleTermHolds(value, ctx)
    ELSE IsMatch(ctx.search_regex, TrimMatches(ValueToString(value), Quote))

\* check_object_match
CheckObjectMatch(entries, parts, name, path, ctx) ==
    IF ~PathMatches(parts, path) THEN <<>>
    ELSE LET value == MapGet(entries, name)
         IN  IF ~value.some THEN <<>>
             ELSE IF ValueMatches(value.val, ctx)
                  THEN <<OutputString(path, name, value.val, ctx)>>
                  ELSE <<>>

(***************************************************************************)
(* parse.rs: the traversal.  A loop that returns from inside its body      *)
(* gives [returned |-> TRUE, value |-> ...]; one that runs to its end      *)
(* gives [returned |-> FALSE, results |-> ...].                            *)
(***************************************************************************)
Returned(v) == [returned |-> TRUE, value |-> v]
Completed(r) == [returned |-> FALSE, results |-> r]

RECURSIVE SearchJsonValue(_, _, _, _, _)
RECURSIVE SearchObjectLoop(_, _, _, _, _, _, _)
RECURSIVE SearchArrayLoop(_, _, _, _, _, _, _)
RECURSIVE SearchObjectLoopNoEarlyReturn(_, _, _, _, _, _, _)

\* the for loop of search_object without the early return of single mode
SearchObjectLoopNoEarlyReturn(entries, k, parts, name, next_path, ctx, acc) ==
    IF k > Len(entries) THEN Completed(acc)
    ELSE LET pushed == Append(next_path, entries[k].key)
             recursive_results ==
                 SearchJsonValue(entries[k].value, parts, name, pushed, ctx)
             popped == SubSeq(pushed, 1, Len(pushed) - 1)
         IN  SearchObjectLoopNoEarlyReturn(
                 entries, k + 1, parts, name, popped, ctx,
                 IF recursive_results.some THEN acc \o recursive_results.val ELSE acc)

\* the for loop of search_object from the k-th entry on; next_path is pushed
\* to before the recursive call and popped after it
SearchObjectLoop(entries, k, parts, name, next_path, ctx, acc) ==
    IF k > Len(entries) THEN Completed(acc)
    ELSE LET pushed == Append(next_path, entries[k].key)
             recursive_results ==
                 SearchJsonValue(entries[k].value, parts, name, pushed, ctx)
             popped == SubSeq(pushed, 1, Len(pushed) - 1)
         IN  IF recursive_results.some
             THEN IF ctx.single
                  THEN Returned(Some(recursive_results.val))
                  ELSE SearchObjectLoop(entries, k + 1, parts, name, popped, ctx,
                                        acc \o recursive_results.val)
             ELSE SearchObjectLoop(entries, k + 1, parts, name, popped, ctx, acc)

\* search_object with its own field checked before its children
SearchObjectOwnFirst(entries, parts, name, path, ctx) ==
    LET check_results == CheckObjectMatch(entries, parts, name, path, ctx)
        loop == SearchObjectLoop(entries, 1, parts, name, path, ctx, <<>>)
    IN  IF ctx.single /\ check_results # <<>> THEN Some(check_results)
        ELSE IF loop.returned THEN loop.value
        ELSE IF check_results \o loop.results # <<>>
             THEN Some(check_results \o loop.results)
             ELSE None

\* search_object
SearchObject(entries, parts, name, path, ctx) ==
    LET loop == SearchObjectLoop(entries, 1, parts, name, path, ctx, <<>>)
    IN  IF loop.returned THEN loop.value
        ELSE LET check_results == CheckObjectMatch(entries, parts, name, path, ctx)
                 all == IF check_results # <<>>
                        THEN loop.results \o check_results
                        ELSE loop.results
             IN  IF ctx.single /\ check_results # <<>> THEN Some(check_results)
                 ELSE IF all # <<>> THEN Some(all)
                 ELSE None

\* the for loop of search_array from the element of index `index` on
SearchArrayLoop(items, index, parts, name, path, ctx, acc) ==
    IF index >= Len(items) THEN Completed(acc)
    ELSE LET next_path == Append(path, NatToString(index))
             recursive_results ==
                 SearchJsonValue(items[index + 1], parts, name, next_path, ctx)
         IN  IF recursive_results.some
             THEN IF ctx.single
                  THEN Returned(Some(recursive_results.val))
                  ELSE SearchArrayLoop(items, index + 1, parts, name, path, ctx,
                                       acc \o recursive_results.val)
             ELSE SearchArrayLoop(items, index + 1, parts, name, path, ctx, acc)

\* search_array
SearchArray(items, parts, name, path, ctx) ==
    LET loop == SearchArrayLoop(items, 0, parts, name, path, ctx, <<>>)
    IN  IF loop.returned THEN loop.value
        ELSE IF loop.results # <<>> THEN Some(loop.results)
        ELSE None

\* search_json_value
SearchJsonValue(value, parts, name, path, ctx) ==
    CASE value.t = "Object" -> SearchObject(value.entries, parts, name, path, ctx)
      [] value.t = "Array" -> SearchArray(value.items, parts, name, path, ctx)
      [] OTHER -> None

\* serde_json::from_str: the text that is no JSON gives an error
InvalidJson == [t |-> "Invalid"]

\* process_json_input, the input given by what serde_json::from_str makes
\* of it: a value, or InvalidJson for an error
ProcessJsonInput(decoded, parts, name, ctx) ==
    IF decoded = InvalidJson THEN None
    ELSE SearchJsonValue(decoded, parts, name, <<>>, ctx)

(***************************************************************************)
(* Values a variable holds while the run in progress does not use it.      *)
(***************************************************************************)
Unused == <<>>
NotYet == [some |-> FALSE]

\* a run of one function alone takes nothing from the command line's inputs
\* and has no effect on the outside
IoUnused ==
    /\ search_term_raw = Unused
    /\ json_files = Unused
    /\ json_string = Unused
    /\ stdin = Unused
    /\ path_output = FALSE
    /\ file_index = 0
    /\ stdout = <<>>
    /\ stderr = <<>>
    /\ reads = <<>>
    /\ exit_code = None

\* no call has just ended; the call that just ended returned v
NoReturn == [pending |-> FALSE]
Pending(v) == [pending |-> TRUE, value |-> v]

\* a run that does not call the functions run on their own
UnitUnused ==
    /\ result = Unused
    /\ source_file = None
    /\ formatted = NotYet
    /\ input_text = Unused
    /\ stripped = NotYet
    /\ events = <<>>
    /\ stack = <<>>
    /\ returned = NoReturn

(***************************************************************************)
(* SpecPath: the command line's search path is parsed (syntax.rs).         *)
(***************************************************************************)
PathAlphabet == {"a", "b", "."}

InitPath ==
    /\ pc = "start"
    /\ IoUnused
    /\ UnitUnused
    /\ search_path \in StringsUpTo(PathAlphabet, MaxExprLen)
    /\ field_path_separator \in StringsUpTo(PathAlphabet, MaxSepLen)
    /\ path_result = NotYet
    /\ search_term = Unused
    /\ term_result = NotYet
    /\ json_value = Unused
    /\ field_path_parts = Unused
    /\ field_name = Unused
    /\ current_path = Unused
    /\ single = FALSE
    /\ hide_value = FALSE
    /\ numeric_search = FALSE
    /\ results = NotYet

\* let (field_path_parts, field_name) = parse_search_path(&search_path, &separator)
ParsePath ==
    /\ pc = "start"
    /\ path_result' = ParseSearchPath(search_path, field_path_separator)
    /\ pc' = "path_parsed"
    /\ UNCHANGED ioVars
    /\ UNCHANGED unitVars
    /\ UNCHANGED <<search_path, field_path_separator, search_term, term_result,
                   json_value, field_path_parts, field_name, current_path,
                   single, hide_value, numeric_search, results>>

NextPath == ParsePath

SpecPath == InitPath /\ [][NextPath]_vars

(***************************************************************************)
(* SpecTerm: a search term is handed to the numeric term parser            *)
(* (syntax.rs).                                                            *)
(***************************************************************************)

InitTerm ==
    /\ pc = "start"
    /\ IoUnused
    /\ UnitUnused
    /\ search_term \in StringsUpTo({"<", ">", "=", "-", "1"}, MaxTermLen)
    /\ term_result = NotYet
    /\ search_path = Unused
    /\ field_path_separator = Unused
    /\ path_result = NotYet
    /\ json_value = Unused
    /\ field_path_parts = Unused
    /\ field_name = Unused
    /\ current_path = Unused
    /\ single = FALSE
    /\ hide_value = FALSE
    /\ numeric_search = FALSE
    /\ results = NotYet

\* Self::parse_as_single(search_term)
ParseSingle ==
    /\ pc = "start"
    /\ term_result' = ParseAsSingle(search_term)
    /\ pc' = "single_parsed"
    /\ UNCHANGED ioVars
    /\ UNCHANGED unitVars
    /\ UNCHANGED <<search_path, field_path_separator, path_result, search_term,
                   json_value, field_path_parts, field_name, current_path,
                   single, hide_value, numeric_search, results>>

\* Self::parse_as_range(search_term)
ParseRange ==
    /\ pc = "start"
    /\ term_result' = ParseAsRange(search_term)
    /\ pc' = "range_parsed"
    /\ UNCHANGED ioVars
    /\ UNCHANGED unitVars
    /\ UNCHANGED <<search_path, field_path_separator, path_result, search_term,
                   json_value, field_path_parts, field_name, current_path,
                   single, hide_value, numeric_search, results>>

\* NumericSearchTerm::from_search_term(search_term)
ParseTerm ==
    /\ pc = "start"
    /\ term_result' = FromSearchTerm(search_term)
    /\ pc' = "term_parsed"
    /\ UNCHANGED ioVars
    /\ UNCHANGED unitVars
    /\ UNCHANGED <<search_path, field_path_separator, path_result, search_term,
                   json_value, field_path_parts, field_name, current_path,
                   single, hide_value, numeric_search, results>>

NextTerm == ParseSingle \/ ParseRange \/ ParseTerm

SpecTerm == InitTerm /\ [][NextTerm]_vars

(***************************************************************************)
(* Spec: one document is searched (parse.rs, process_json_input).  The     *)
(* documents are the empty object, the empty array and all the values of   *)
(* at most MaxNodes nodes built from two scalars and two keys; an object's *)
(* keys are distinct and iterate in increasing order, which both map types *)
(* of serde_json can produce.  The one search term is a regex of literal   *)
(* characters as well as a numeric comparison: as a regex it is found in   *)
(* the string scalar, as a comparison it holds of the number scalar.       *)
(***************************************************************************)
KeyOrder == << <<"0">>, <<"a">> >>
Keys == {KeyOrder[k] : k \in 1..Len(KeyOrder)}
Scalars == {JString(<<Quote, ">", "0">>), JNumber(1)}

\* the increasing selections of m keys
KeySeqs(m) ==
    {[k \in 1..m |-> KeyOrder[sel[k]]] :
        sel \in {f \in [1..m -> 1..Len(KeyOrder)] :
                    \A a, b \in 1..m : a < b => f[a] < f[b]}}

RECURSIVE ValuesOfSize(_)
RECURSIVE ForestsOfSize(_)
\* the non-empty sequences of values that have n nodes together
ForestsOfSize(n) ==
    UNION {{<<v>> \o f : v \in ValuesOfSize(i),
                         f \in (IF i = n THEN {<<>>} ELSE ForestsOfSize(n - i))} :
              i \in 1..n}

\* the values of exactly n nodes
ValuesOfSize(n) ==
    IF n = 1 THEN Scalars
    ELSE {JArray(f) : f \in ForestsOfSize(n - 1)}
            \cup UNION {{JObject([k \in 1..Len(f) |-> Entry(ks[k], f[k])]) :
                            ks \in KeySeqs(Len(f))} : f \in ForestsOfSize(n - 1)}

FieldNames == Keys
Patterns == {<<">", "0">>}
SearchSeparators == {<<".">>}

\* the SearchContext of the run
Context ==
    SearchContext(search_term, single, hide_value, field_path_separator, numeric_search)

Init ==
    /\ pc = "start"
    /\ IoUnused
    /\ UnitUnused
    /\ json_value \in {JObject(<<>>), JArray(<<>>), InvalidJson}
                          \cup UNION {ValuesOfSize(n) : n \in 1..MaxNodes}
    /\ field_path_parts \in {<<>>, << <<"a">> >>, << <<"0">> >>, << <<"a">>, <<"0">> >>}
    /\ field_name \in FieldNames
    /\ search_term \in Patterns
    /\ field_path_separator \in SearchSeparators
    /\ single \in BOOLEAN
    /\ hide_value \in BOOLEAN
    /\ numeric_search \in BOOLEAN
    /\ results = NotYet
    /\ search_path = Unused
    /\ path_result = NotYet
    /\ term_result = NotYet
    /\ current_path = Unused

\* process_json_input(json_input_raw, field_path_parts, field_name, search_context)
Search ==
    /\ pc = "start"
    /\ results' = Some(ProcessJsonInput(json_value, field_path_parts, field_name, Context))
    /\ pc' = "searched"
    /\ UNCHANGED ioVars
    /\ UNCHANGED unitVars
    /\ UNCHANGED <<search_path, field_path_separator, path_result, search_term,
                   term_result, json_value, field_path_parts, field_name,
                   current_path, single, hide_value, numeric_search>>

Next == Search

Spec == Init /\ [][Next]_vars

(***************************************************************************)
(* SpecCheck: the field check of one object node (parse.rs,                *)
(* check_object_match), for every accumulated path a traversal can hand    *)
(* it.                                                                     *)
(***************************************************************************)
CheckedObjects ==
    {JObject(<<>>)}
        \cup {JObject(<<Entry(k, v)>>) :
                 k \in Keys, v \in Scalars \cup {JString(<<"x">>), JNumber(2)}}

InitCheck ==
    /\ pc = "start"
    /\ IoUnused
    /\ UnitUnused
    /\ json_value \in CheckedObjects
    /\ field_path_parts \in StringsUpTo(Keys, MaxCheckSpecLen)
    /\ current_path \in StringsUpTo(Keys, MaxPathLen)
    /\ field_name \in FieldNames
    /\ search_term \in Patterns \cup {<<"x">>, <<">", "0", "<", "2">>}
    /\ field_path_separator \in SearchSeparators
    /\ single = FALSE
    /\ hide_value \in BOOLEAN
    /\ numeric_search \in BOOLEAN
    /\ results = NotYet
    /\ search_path = Unused
    /\ path_result = NotYet
    /\ term_result = NotYet

\* check_object_match(obj, field_path_parts, field_name, &current_path, search_context)
CheckObject ==
    /\ pc = "start"
    /\ results' = Some(CheckObjectMatch(json_value.entries, field_path_parts, field_name,
                                        current_path, Context))
    /\ pc' = "checked"
    /\ UNCHANGED ioVars
    /\ UNCHANGED unitVars
    /\ UNCHANGED <<search_path, field_path_separator, path_result, search_term,
                   term_result, json_value, field_path_parts, field_name,
                   current_path, single, hide_value, numeric_search>>

NextCheck == CheckObject

SpecCheck == InitCheck /\ [][NextCheck]_vars

(***************************************************************************)
(* SpecValue: the value predicate on one field of the root object          *)
(* (parse.rs, check_object_match with an empty specification; syntax.rs,   *)
(* NumericSearchTerm::matches).  The terms are every single comparison and *)
(* every range over the operands, the range >=10<20, and some terms that   *)
(* are no numeric term; the values are numbers, strings (with quote        *)
(* characters, with the text of a number), booleans, null and containers.  *)
(***************************************************************************)
Operands == -1..MaxOperand
OperatorTexts == {OpLE, OpGE, OpEQ, OpLT, OpGT}
RangeOperatorTexts == {OpLE, OpGE, OpLT, OpGT}

RangeTerms ==
    {op1 \o NumberToString(n1) \o op2 \o NumberToString(n2) :
        op1 \in RangeOperatorTexts, n1 \in Operands,
        op2 \in RangeOperatorTexts, n2 \in Operands}
        \cup {<<">", "=", "1", "0", "<", "2", "0">>}
ValueTerms ==
    {op \o NumberToString(n) : op \in OperatorTexts, n \in Operands}
        \cup RangeTerms
        \cup { <<"x">>, <<"1">>, <<"~", "1">>, <<Quote, ">">>, <<"t", "r", "u", "e">>,
               <<">", "0", "<">>, <<"=", "1">>, <<"-", "1">> }

FieldValues ==
    {JNumber(n) : n \in (0 - MaxOperand - 1)..(MaxOperand + 1)}
        \cup {JNumber(10), JNumber(20)}
        \cup {JString(<<"x">>), JString(<<"1">>), JString(<<Quote, ">", "0">>),
              JString(<<Quote, "x", Quote>>), JBool(TRUE), JBool(FALSE), JNull,
              JArray(<<>>), JArray(<<JNumber(1)>>), JObject(<<>>)}

InitValue ==
    /\ pc = "start"
    /\ IoUnused
    /\ UnitUnused
    /\ json_value \in {JObject(<<Entry(<<"a">>, v)>>) : v \in FieldValues}
    /\ field_path_parts = <<>>
    /\ current_path = <<>>
    /\ field_name = <<"a">>
    /\ search_term \in ValueTerms
    /\ field_path_separator \in SearchSeparators
    /\ single = FALSE
    /\ hide_value \in BOOLEAN
    /\ numeric_search \in BOOLEAN
    /\ results = NotYet
    /\ term_result = NotYet
    /\ search_path = Unused
    /\ path_result = NotYet

\* check_object_match(obj, &[], field_name, &vec![], search_context)
CheckField ==
    /\ pc = "start"
    /\ results' = Some(CheckObjectMatch(json_value.entries, field_path_parts, field_name,
                                        current_path, Context))
    /\ pc' = "field_checked"
    /\ UNCHANGED ioVars
    /\ UNCHANGED unitVars
    /\ UNCHANGED <<search_path, field_path_separator, path_result, search_term,
                   term_result, json_value, field_path_parts, field_name,
                   current_path, single, hide_value, numeric_search>>

\* term.matches(json_num) for the parsed term and the field's number
MatchTerm ==
    /\ pc = "start"
    /\ FromSearchTerm(search_term).some
    /\ AsF64(json_value.entries[1].value).some
    /\ term_result' = Some(Matches(FromSearchTerm(search_term).val,
                                   AsF64(json_value.entries[1].value).val))
    /\ pc' = "term_matched"
    /\ UNCHANGED ioVars
    /\ UNCHANGED unitVars
    /\ UNCHANGED <<search_path, field_path_separator, path_result, search_term,
                   json_value, field_path_parts, field_name, current_path,
                   single, hide_value, numeric_search, results>>

NextValue == CheckField \/ MatchTerm

SpecValue == InitValue /\ [][NextValue]_vars

(***************************************************************************)
(* main.rs: the query given as fieldPath.fieldName:expectedValue           *)
(***************************************************************************)
\* str::split_once: split around the first occurrence of the pattern
SplitOnce(s, p) ==
    LET at == Find(s, p)
    IN  IF at.some
        THEN Some(<<Slice(s, 0, at.val), Slice(s, at.val + Len(p), Len(s))>>)
        ELSE None

\* str::trim for the one whitespace character of the model, the space
Trim(s) == TrimMatches(s, " ")

MissingColon == "Invalid search term format. Missing colon separator for value condition."
EmptyNameOrValue == "Invalid search term format. Field name or expected value is empty."

OkTerm(parts, name, expected_value) ==
    [ok |-> TRUE, parts |-> parts, name |-> name, expected_value |-> expected_value]

\* parse_search_term that takes a query without a colon as a field name
\* searched for its own text
ParseSearchTermLenient(raw) ==
    LET colon == SplitOnce(raw, <<":">>)
    IN  IF colon.some
        THEN OkTerm(<<>>, colon.val[1], Trim(colon.val[2]))
        ELSE OkTerm(<<>>, raw, raw)

\* parse_search_term
ParseSearchTerm(raw) ==
    LET colon == SplitOnce(raw, <<":">>)
    IN  IF colon.some
        THEN LET path_part == colon.val[1]
                 condition_part == colon.val[2]
                 expected_value == Trim(condition_part)
                 dot == RSplitOnce(path_part, <<".">>)
             IN  IF dot.some
                 THEN IF dot.val[2] # <<>> /\ expected_value # <<>>
                      THEN OkTerm(Split(dot.val[1], <<".">>), dot.val[2], expected_value)
                      ELSE Err(EmptyNameOrValue)
                 ELSE IF path_part # <<>> /\ expected_value # <<>>
                      THEN OkTerm(<<>>, path_part, expected_value)
                      ELSE Err(EmptyNameOrValue)
        ELSE Err(MissingColon)

(***************************************************************************)
(* file.rs: the inputs of a run.  A file is its path and what reading it   *)
(* gives: Unreadable for an error of fs::read_to_string, and else the      *)
(* text, given by what serde_json::from_str makes of it.                   *)
(***************************************************************************)
Unreadable == [t |-> "Unreadable"]

File(path, content) == [path |-> path, content |-> content]

ReadError == "Error reading file"
StdinError == "Error reading from stdin"
JsonError == "Error parsing JSON input"
QueryError == "Error parsing search term"

\* match results { Some(result_vec) => result_vec, None => Vec::new() }
ResultVec(results_) == IF results_.some THEN results_.val ELSE <<>>

\* process_file that reports a failure as a result
ProcessFileErrorLine(file, parts, name, ctx) ==
    IF file.content = Unreadable \/ file.content = InvalidJson
    THEN << <<"E", "r", "r", "o", "r">> >>
    ELSE ResultVec(ProcessJsonInput(file.content, parts, name, ctx))

\* process_file: the results of one file
ProcessFile(file, parts, name, ctx) ==
    IF file.content = Unreadable THEN <<>>
    ELSE ResultVec(ProcessJsonInput(file.content, parts, name, ctx))

\* what process_file and process_json_input write with eprintln! for a file
FileErrors(file) ==
    IF file.content = Unreadable THEN <<ReadError>>
    ELSE IF file.content = InvalidJson THEN <<JsonError>>
    ELSE <<>>

\* an inner loop that prints the path of a file with results once, however
\* many results there are
PrintedLinesOncePerFile(file_path, search_results, sgl, by_path) ==
    LET lines == [i \in 1..Len(search_results) |->
                     IF by_path THEN file_path ELSE search_results[i]]
    IN  IF (sgl \/ by_path) /\ lines # <<>> THEN <<lines[1]>> ELSE lines

\* the inner loop of handle_file_input: the lines printed for one file
PrintedLines(file_path, search_results, sgl, by_path) ==
    LET lines == [i \in 1..Len(search_results) |->
                     IF by_path THEN file_path ELSE search_results[i]]
    IN  IF sgl /\ lines # <<>> THEN <<lines[1]>> ELSE lines

(***************************************************************************)
(* SpecMain: a run of the program (main.rs, main; file.rs,                 *)
(* handle_file_input and handle_string_or_stdin_input).  The query is      *)
(* parsed, then either the files are handled one after the other or the    *)
(* JSON string or the standard input is searched.                          *)
(***************************************************************************)
DocNone == JObject(<<Entry(<<"a">>, JString(<<"x">>))>>)
DocOne == JObject(<<Entry(<<"a">>, JString(<<">", "0">>))>>)
DocTwo == JArray(<<DocOne, JObject(<<Entry(<<"a">>, JString(<<">", "0", "0">>))>>)>>)

\* the lists of at most MaxFiles files, the k-th one at the path f<k>
FileLists ==
    UNION {{[k \in 1..n |-> File(<<"f">> \o NatToString(k), c[k])] :
               c \in [1..n -> {Unreadable, InvalidJson, DocNone, DocOne, DocTwo}]} :
              n \in 0..MaxFiles}

InitMain ==
    /\ pc = "start"
    /\ UnitUnused
    /\ search_term_raw \in
          { <<"a", ":", ">", "0">>, <<"0", ".", "a", ":", ">", "0">>,
            <<"a", ":", " ", ">", "0">>, <<"a">>, <<"a", ":", " ">>, <<":", ">", "0">>,
            <<"a", ".", ":", ">", "0">> }
    /\ json_files \in FileLists
    /\ json_string \in {None, Some(DocOne), Some(InvalidJson)}
    /\ stdin \in {Unreadable, DocTwo}
    /\ single \in BOOLEAN
    /\ path_output \in BOOLEAN
    /\ hide_value \in BOOLEAN
    /\ field_path_separator \in SearchSeparators
    /\ numeric_search = FALSE
    /\ file_index = 0
    /\ stdout = <<>>
    /\ stderr = <<>>
    /\ reads = <<>>
    /\ exit_code = None
    /\ search_term = Unused
    /\ field_path_parts = Unused
    /\ field_name = Unused
    /\ search_path = Unused
    /\ path_result = NotYet
    /\ term_result = NotYet
    /\ json_value = Unused
    /\ current_path = Unused
    /\ results = NotYet

\* main: parse_search_term(&search_term_raw), and the exit on its error
ParseQuery ==
    /\ UNCHANGED unitVars
    /\ pc = "start"
    /\ LET parsed == ParseSearchTerm(search_term_raw)
       IN  IF parsed.ok
           THEN /\ field_path_parts' = parsed.parts
                /\ field_name' = parsed.name
                /\ search_term' = parsed.expected_value
                /\ pc' = "parsed"
                /\ UNCHANGED <<stderr, exit_code>>
           ELSE /\ stderr' = Append(stderr, QueryError)
                /\ exit_code' = Some(1)
                /\ pc' = "exited"
                /\ UNCHANGED <<field_path_parts, field_name, search_term>>
    /\ UNCHANGED <<search_path, field_path_separator, path_result, term_result,
                   json_value, current_path, single, hide_value, numeric_search,
                   results, search_term_raw, json_files, json_string, stdin,
                   path_output, file_index, stdout, reads>>

\* handle_file_input whose break leaves the loop over the files: in single
\* mode no file is read after the first printed line
HandleFileStopAfterMatch ==
    /\ UNCHANGED unitVars
    /\ pc = "parsed"
    /\ file_index < Len(json_files)
    /\ LET file == json_files[file_index + 1]
           lines == PrintedLines(file.path,
                                 ProcessFile(file, field_path_parts, field_name, Context),
                                 single, path_output)
       IN  /\ reads' = Append(reads, file.path)
           /\ stderr' = stderr \o FileErrors(file)
           /\ stdout' = stdout \o lines
           /\ pc' = IF file_index + 1 = Len(json_files) \/ (single /\ lines # <<>>)
                    THEN "done" ELSE "parsed"
    /\ file_index' = file_index + 1
    /\ UNCHANGED <<search_path, field_path_separator, path_result, search_term,
                   term_result, json_value, field_path_parts, field_name,
                   current_path, single, hide_value, numeric_search, results,
                   search_term_raw, json_files, json_string, stdin, path_output,
                   exit_code>>

\* handle_file_input: one round of its loop over json_files
HandleFile ==
    /\ UNCHANGED unitVars
    /\ pc = "parsed"
    /\ file_index < Len(json_files)
    /\ LET file == json_files[file_index + 1]
       IN  /\ reads' = Append(reads, file.path)
           /\ stderr' = stderr \o FileErrors(file)
           /\ stdout' = stdout \o PrintedLines(
                                      file.path,
                                      ProcessFile(file, field_path_parts, field_name,
                                                  Context),
                                      single, path_output)
    /\ file_index' = file_index + 1
    /\ pc' = IF file_index + 1 = Len(json_files) THEN "done" ELSE "parsed"
    /\ UNCHANGED <<search_path, field_path_separator, path_result, search_term,
                   term_result, json_value, field_path_parts, field_name,
                   current_path, single, hide_value, numeric_search, results,
                   search_term_raw, json_files, json_string, stdin, path_output,
                   exit_code>>

\* handle_string_or_stdin_input: the --json-string value when there is one,
\* all of stdin otherwise
StringOrStdinInput ==
    /\ UNCHANGED unitVars
    /\ pc = "parsed"
    /\ IF ~json_string.some /\ stdin = Unreadable
       THEN /\ reads' = Append(reads, <<"s", "t", "d", "i", "n">>)
            /\ stderr' = Append(stderr, StdinError)
            /\ exit_code' = Some(1)
            /\ pc' = "exited"
            /\ UNCHANGED stdout
       ELSE LET json_input_raw == IF json_string.some THEN json_string.val ELSE stdin
            IN  /\ reads' = IF json_string.some THEN reads
                            ELSE Append(reads, <<"s", "t", "d", "i", "n">>)
                /\ stderr' = IF json_input_raw = InvalidJson
                             THEN Append(stderr, JsonError) ELSE stderr
                /\ stdout' = stdout \o ResultVec(ProcessJsonInput(
                                           json_input_raw, field_path_parts, field_name,
                                           Context))
                /\ pc' = "done"
                /\ UNCHANGED exit_code
    /\ UNCHANGED <<search_path, field_path_separator, path_result, search_term,
                   term_result, json_value, field_path_parts, field_name,
                   current_path, single, hide_value, numeric_search, results,
                   search_term_raw, json_files, json_string, stdin, path_output,
                   file_index>>

\* main without its test of json_files: the string or stdin is searched even
\* when files are given
HandleStringOrStdinAlways == StringOrStdinInput

\* the else branch of main: taken when no file is given
HandleStringOrStdin ==
    /\ json_files = <<>>
    /\ StringOrStdinInput

NextMain == ParseQuery \/ HandleFile \/ HandleStringOrStdin

SpecMain == InitMain /\ [][NextMain]_vars

(***************************************************************************)
(* format.rs: format_text_output.  A SearchResult is used through its two  *)
(* fields: json_path, a list of strings that is joined, and value, which   *)
(* is written with {}: the model holds the text that writing gives.        *)
(***************************************************************************)
SearchResult(json_path, value) == [json_path |-> json_path, value |-> value]

FormatContext(sep, hide, by_path) ==
    [field_path_separator |-> sep, hide_value |-> hide, path_output |-> by_path]

\* format_text_output that looks at hide_value before path_output
FormatTextOutputHideFirst(res, path, format_context) ==
    IF format_context.hide_value
    THEN Join(res.json_path, format_context.field_path_separator)
    ELSE IF format_context.path_output /\ path.some
    THEN path.val
    ELSE Join(res.json_path, format_context.field_path_separator)
            \o <<":", " ">> \o res.value

FormatTextOutput(res, path, format_context) ==
    IF format_context.path_output /\ path.some
    THEN path.val
    ELSE IF format_context.hide_value
    THEN Join(res.json_path, format_context.field_path_separator)
    ELSE Join(res.json_path, format_context.field_path_separator)
            \o <<":", " ">> \o res.value

(***************************************************************************)
(* SpecFormat: one result is rendered by format_text_output.               *)
(***************************************************************************)

InitFormat ==
    /\ pc = "start"
    /\ result \in
          {SearchResult(p, v) :
              p \in StringsUpTo({<<"a">>, <<"0">>, <<>>, <<"a", ".", "b">>},
                                MaxJsonPathLen) \ {<<>>},
              v \in {<<"1">>, <<"x">>, <<"\"", "x", "\"">>, <<>>, <<"a", ":", " ", "1">>}}
    /\ source_file \in
          {None} \cup {Some(f) : f \in {<<"f">>, <<"a">>, <<"a", ":", " ", "1">>, <<>>}}
    /\ field_path_separator \in {<<".">>, <<"/">>, <<>>}
    /\ hide_value \in BOOLEAN
    /\ path_output \in BOOLEAN
    /\ formatted = NotYet
    /\ input_text = Unused
    /\ stripped = NotYet
    /\ events = <<>>
    /\ stack = <<>>
    /\ returned = NoReturn
    /\ search_term_raw = Unused
    /\ json_files = Unused
    /\ json_string = Unused
    /\ stdin = Unused
    /\ file_index = 0
    /\ stdout = <<>>
    /\ stderr = <<>>
    /\ reads = <<>>
    /\ exit_code = None
    /\ search_path = Unused
    /\ path_result = NotYet
    /\ search_term = Unused
    /\ term_result = NotYet
    /\ json_value = Unused
    /\ field_path_parts = Unused
    /\ field_name = Unused
    /\ current_path = Unused
    /\ single = FALSE
    /\ numeric_search = FALSE
    /\ results = NotYet

\* format_text_output(&result, file_path, &format_context)
Format ==
    /\ pc = "start"
    /\ formatted' = Some(FormatTextOutput(result, source_file,
                                          FormatContext(field_path_separator, hide_value,
                                                        path_output)))
    /\ pc' = "formatted"
    /\ UNCHANGED ioVars
    /\ UNCHANGED <<result, source_file, input_text, stripped, events, stack, returned>>
    /\ UNCHANGED <<search_path, field_path_separator, path_result, search_term,
                   term_result, json_value, field_path_parts, field_name,
                   current_path, single, hide_value, numeric_search, results>>

SpecFormat == InitFormat /\ [][Format]_vars

(***************************************************************************)
(* remove_whitespace.rs: remove_whitespace                                 *)
(***************************************************************************)
\* char::is_whitespace, on the characters of the model
IsWhitespace(char) == char \in {" ", "\t", "\n", "\r"}

\* remove_whitespace that drops the spaces only
RemoveSpaces(txt) == SelectSeq(txt, LAMBDA char : char # " ")

\* remove_whitespace: the loop over text.chars() pushes every char that is
\* no whitespace
RemoveWhitespace(txt) == SelectSeq(txt, LAMBDA char : ~IsWhitespace(char))

(***************************************************************************)
(* SpecWs: remove_whitespace is applied to a text.                         *)
(***************************************************************************)

InitWs ==
    /\ pc = "start"
    /\ IoUnused
    /\ input_text \in StringsUpTo({"a", "b", " ", "\t", "\n"}, MaxTextLen)
    /\ stripped = NotYet
    /\ result = Unused
    /\ source_file = None
    /\ formatted = NotYet
    /\ events = <<>>
    /\ stack = <<>>
    /\ returned = NoReturn
    /\ search_path = Unused
    /\ field_path_separator = Unused
    /\ path_result = NotYet
    /\ search_term = Unused
    /\ term_result = NotYet
    /\ json_value = Unused
    /\ field_path_parts = Unused
    /\ field_name = Unused
    /\ current_path = Unused
    /\ single = FALSE
    /\ hide_value = FALSE
    /\ numeric_search = FALSE
    /\ results = NotYet

\* let result = remove_whitespace(text)
StripText ==
    /\ pc = "start"
    /\ stripped' = Some(RemoveWhitespace(input_text))
    /\ pc' = "stripped"
    /\ UNCHANGED ioVars
    /\ UNCHANGED <<result, source_file, formatted, input_text, events, stack, returned>>
    /\ UNCHANGED <<search_path, field_path_separator, path_result, search_term,
                   term_result, json_value, field_path_parts, field_name,
                   current_path, single, hide_value, numeric_search, results>>

\* let result = remove_whitespace(&result), on what the first call returned
StripAgain ==
    /\ pc = "stripped"
    /\ input_text' = stripped.val
    /\ stripped' = Some(RemoveWhitespace(stripped.val))
    /\ pc' = "stripped_again"
    /\ UNCHANGED ioVars
    /\ UNCHANGED <<result, source_file, formatted, events, stack, returned>>
    /\ UNCHANGED <<search_path, field_path_separator, path_result, search_term,
                   term_result, json_value, field_path_parts, field_name,
                   current_path, single, hide_value, numeric_search, results>>

NextWs == StripText \/ StripAgain

SpecWs == InitWs /\ [][NextWs]_vars

(***************************************************************************)
(* SpecWalk: the search of one document, call by call (parse.rs,           *)
(* search_json_value, search_object, search_array).  The stack holds one   *)
(* frame for every call of search_object or search_array in progress, with *)
(* its locals; returned holds what a call returned until its caller takes  *)
(* it.  Every call of search_json_value and of check_object_match is       *)
(* recorded in events with the path it was given.  The pos of a frame or   *)
(* of an event names the node the call is about, by the child numbers that *)
(* lead to it from the root; no step of the search reads it.               *)
(***************************************************************************)
\* an array long enough for an index of two digits, its last element an
\* object that matches
LongArray ==
    JArray([i \in 1..11 |-> IF i = 11
                            THEN JObject(<<Entry(<<"a">>, JString(<<">", "0">>))>>)
                            ELSE JNumber(1)])

\* the locals of a call of search_object or search_array that has just begun
Frame(fn, node, path, pos) ==
    [fn |-> fn, node |-> node, current_path |-> path, next_path |-> path,
     k |-> 1, results |-> <<>>, pos |-> pos]

Top == stack[Len(stack)]
Callers == SubSeq(stack, 1, Len(stack) - 1)

\* search_json_value(value, .., path, ..) called with the calls in `below`
\* in progress: an object or an array begins its own call, anything else
\* returns None
Call(value, path, pos, below) ==
    /\ events' = Append(events, [kind |-> "visit", pos |-> pos, path |-> path])
    /\ IF value.t = "Object"
       THEN /\ stack' = Append(below, Frame("search_object", value, path, pos))
            /\ returned' = NoReturn
       ELSE IF value.t = "Array"
       THEN /\ stack' = Append(below, Frame("search_array", value, path, pos))
            /\ returned' = NoReturn
       ELSE /\ stack' = below
            /\ returned' = Pending(None)

\* the arguments of process_json_input, the document of at most max_nodes
\* nodes
WalkInputs(max_nodes) ==
    /\ pc = "start"
    /\ IoUnused
    /\ UnitUnused
    /\ json_value \in {JObject(<<>>), JArray(<<>>), LongArray, InvalidJson}
                          \cup UNION {ValuesOfSize(n) : n \in 1..max_nodes}
    /\ field_path_parts \in {<<>>, << <<"a">> >>}
    /\ field_name \in FieldNames
    /\ search_term \in Patterns
    /\ field_path_separator \in SearchSeparators
    /\ single \in BOOLEAN
    /\ hide_value = FALSE
    /\ numeric_search = FALSE
    /\ results = NotYet
    /\ search_path = Unused
    /\ path_result = NotYet
    /\ term_result = NotYet
    /\ current_path = Unused

InitWalk == WalkInputs(MaxWalkNodes)

InitWalkFair == WalkInputs(MaxFairNodes)

\* what a step of the search leaves alone
WalkFrame ==
    /\ UNCHANGED ioVars
    /\ UNCHANGED <<result, source_file, formatted, input_text, stripped>>
    /\ UNCHANGED <<search_path, field_path_separator, path_result, search_term,
                   term_result, json_value, field_path_parts, field_name,
                   current_path, single, hide_value, numeric_search>>

\* process_json_input: the document is decoded and, unless that fails,
\* search_json_value is called on it with the empty path
StartWalk ==
    /\ pc = "start"
    /\ IF json_value = InvalidJson
       THEN /\ results' = Some(None)
            /\ pc' = "walked"
            /\ UNCHANGED <<events, stack, returned>>
       ELSE /\ Call(json_value, <<>>, <<>>, <<>>)
            /\ pc' = "walking"
            /\ UNCHANGED results
    /\ WalkFrame

\* search_object: the loop takes its next entry, pushes the key to next_path
\* and calls search_json_value with a clone of next_path
EnterObjectChild ==
    /\ pc = "walking" /\ ~returned.pending /\ stack # <<>>
    /\ Top.fn = "search_object"
    /\ Top.k <= Len(Top.node.entries)
    /\ LET entry == Top.node.entries[Top.k]
           next_path == Append(Top.next_path, entry.key)
       IN  Call(entry.value, next_path, Append(Top.pos, Top.k),
                Append(Callers, [Top EXCEPT !.next_path = next_path]))
    /\ UNCHANGED <<pc, results>>
    /\ WalkFrame

\* search_object that goes on with its loop in single mode as well
ReceiveInObjectNoEarlyReturn ==
    /\ pc = "walking" /\ returned.pending /\ stack # <<>>
    /\ Top.fn = "search_object"
    /\ stack' = Append(Callers,
                       [Top EXCEPT !.results = IF returned.value.some
                                               THEN @ \o returned.value.val ELSE @,
                                   !.next_path = SubSeq(@, 1, Len(@) - 1),
                                   !.k = @ + 1])
    /\ returned' = NoReturn
    /\ UNCHANGED <<pc, results, events>>
    /\ WalkFrame

\* search_object that does not pop next_path after the recursive call
ReceiveInObjectNoPop ==
    /\ pc = "walking" /\ returned.pending /\ stack # <<>>
    /\ Top.fn = "search_object"
    /\ IF returned.value.some /\ single
       THEN /\ stack' = Callers
            /\ returned' = Pending(Some(returned.value.val))
       ELSE /\ stack' = Append(Callers,
                               [Top EXCEPT !.results = IF returned.value.some
                                                       THEN @ \o returned.value.val
                                                       ELSE @,
                                           !.k = @ + 1])
            /\ returned' = NoReturn
    /\ UNCHANGED <<pc, results, events>>
    /\ WalkFrame

\* search_object: the recursive call has returned.  Some(recursive_results)
\* is returned at once in single mode and added to results otherwise; then
\* next_path is popped and the loop goes on
ReceiveInObject ==
    /\ pc = "walking" /\ returned.pending /\ stack # <<>>
    /\ Top.fn = "search_object"
    /\ IF returned.value.some /\ single
       THEN /\ stack' = Callers
            /\ returned' = Pending(Some(returned.value.val))
       ELSE /\ stack' = Append(Callers,
                               [Top EXCEPT !.results = IF returned.value.some
                                                       THEN @ \o returned.value.val
                                                       ELSE @,
                                           !.next_path = SubSeq(@, 1, Len(@) - 1),
                                           !.k = @ + 1])
            /\ returned' = NoReturn
    /\ UNCHANGED <<pc, results, events>>
    /\ WalkFrame

\* what search_object returns after its loop, given what check_object_match
\* returned
AfterCheck(found, check_results) ==
    IF single /\ check_results # <<>> THEN Some(check_results)
    ELSE IF found \o check_results # <<>> THEN Some(found \o check_results)
    ELSE None

\* search_object: the loop is over, check_object_match is called with
\* current_path and the call returns
CheckOwn ==
    /\ pc = "walking" /\ ~returned.pending /\ stack # <<>>
    /\ Top.fn = "search_object"
    /\ Top.k > Len(Top.node.entries)
    /\ events' = Append(events, [kind |-> "check", pos |-> Top.pos,
                                  path |-> Top.current_path])
    /\ returned' = Pending(AfterCheck(Top.results,
                                      CheckObjectMatch(Top.node.entries, field_path_parts,
                                                       field_name, Top.current_path,
                                                       Context)))
    /\ stack' = Callers
    /\ UNCHANGED <<pc, results>>
    /\ WalkFrame

\* search_array: the loop takes its next item, clones current_path, pushes
\* the index to it and calls search_json_value
EnterArrayChild ==
    /\ pc = "walking" /\ ~returned.pending /\ stack # <<>>
    /\ Top.fn = "search_array"
    /\ Top.k <= Len(Top.node.items)
    /\ LET index == Top.k - 1
           next_path == Append(Top.current_path, NatToString(index))
       IN  Call(Top.node.items[Top.k], next_path, Append(Top.pos, Top.k), stack)
    /\ UNCHANGED <<pc, results>>
    /\ WalkFrame

\* search_array that returns the first results it gets, single mode or not
ReceiveInArrayStopAtFirst ==
    /\ pc = "walking" /\ returned.pending /\ stack # <<>>
    /\ Top.fn = "search_array"
    /\ IF returned.value.some
       THEN /\ stack' = Callers
            /\ returned' = Pending(Some(returned.value.val))
       ELSE /\ stack' = Append(Callers, [Top EXCEPT !.k = @ + 1])
            /\ returned' = NoReturn
    /\ UNCHANGED <<pc, results, events>>
    /\ WalkFrame

\* search_array: the recursive call has returned
ReceiveInArray ==
    /\ pc = "walking" /\ returned.pending /\ stack # <<>>
    /\ Top.fn = "search_array"
    /\ IF returned.value.some /\ single
       THEN /\ stack' = Callers
            /\ returned' = Pending(Some(returned.value.val))
       ELSE /\ stack' = Append(Callers,
                               [Top EXCEPT !.results = IF returned.value.some
                                                       THEN @ \o returned.value.val
                                                       ELSE @,
                                           !.k = @ + 1])
            /\ returned' = NoReturn
    /\ UNCHANGED <<pc, results, events>>
    /\ WalkFrame

\* search_array that looks for the field among its own indices once its
\* loop is over
FinishArrayWithOwnCheck ==
    /\ pc = "walking" /\ ~returned.pending /\ stack # <<>>
    /\ Top.fn = "search_array"
    /\ Top.k > Len(Top.node.items)
    /\ events' = Append(events, [kind |-> "check", pos |-> Top.pos,
                                  path |-> Top.current_path])
    /\ returned' = Pending(AfterCheck(
                       Top.results,
                       CheckObjectMatch([i \in 1..Len(Top.node.items) |->
                                            Entry(NatToString(i - 1), Top.node.items[i])],
                                        field_path_parts, field_name, Top.current_path,
                                        Context)))
    /\ stack' = Callers
    /\ UNCHANGED <<pc, results>>
    /\ WalkFrame

\* search_array: the loop is over and the call returns what it collected
FinishArray ==
    /\ pc = "walking" /\ ~returned.pending /\ stack # <<>>
    /\ Top.fn = "search_array"
    /\ Top.k > Len(Top.node.items)
    /\ returned' = Pending(IF Top.results # <<>> THEN Some(Top.results) ELSE None)
    /\ stack' = Callers
    /\ UNCHANGED <<pc, results, events>>
    /\ WalkFrame

\* process_json_input: the call on the document has returned
FinishWalk ==
    /\ pc = "walking" /\ returned.pending /\ stack = <<>>
    /\ results' = Some(returned.value)
    /\ returned' = NoReturn
    /\ pc' = "walked"
    /\ UNCHANGED <<events, stack>>
    /\ WalkFrame

NextWalk ==
    \/ StartWalk
    \/ EnterObjectChild
    \/ ReceiveInObject
    \/ CheckOwn
    \/ EnterArrayChild
    \/ ReceiveInArray
    \/ FinishArray
    \/ FinishWalk

SpecWalk == InitWalk /\ [][NextWalk]_vars

\* a call in progress is not held up for ever
SpecWalkFair == InitWalkFair /\ [][NextWalk]_vars /\ WF_vars(NextWalk)

(***************************************************************************)
(* Claims about parse_search_path, checked under SpecPath.                 *)
(***************************************************************************)
PathParsed == pc = "path_parsed"

\* the offsets at which the separator occurs in the search path
SepOffsets == {i \in 0..Len(search_path) : OccursAt(search_path, field_path_separator, i)}

\* the part of the search path before the last occurrence of the separator
BeforeLastSep ==
    Slice(search_path, 0, CHOOSE i \in SepOffsets : \A j \in SepOffsets : j <= i)

\* the pieces are what cutting s at every occurrence of p, taken left to
\* right, leaves: joined by p they give s back, and no piece followed by p
\* holds an earlier occurrence of p
IsCutOf(pieces, s, p) ==
    /\ Len(pieces) >= 1
    /\ Join(pieces, p) = s
    /\ ~Occurs(pieces[Len(pieces)], p)
    /\ \A k \in 1..(Len(pieces) - 1) :
           \A i \in 0..(Len(pieces[k]) - 1) : ~OccursAt(pieces[k] \o p, p, i)

\* C7: a successful parse_search_path cuts the expression at the last
\* occurrence of the separator: the field name is all that follows it, the
\* ancestor segments are what precedes it cut at every occurrence of the
\* separator; with no occurrence the whole expression is the field name and
\* there are no ancestor segments.
C7_SplitsAtLastSeparator ==
    (PathParsed /\ path_result.ok) =>
        IF SepOffsets = {}
        THEN path_result.parts = <<>> /\ path_result.name = search_path
        ELSE /\ BeforeLastSep \o field_path_separator \o path_result.name = search_path
             /\ ~Occurs(Slice(search_path, Len(BeforeLastSep) + 1, Len(search_path)),
                        field_path_separator)
             /\ IsCutOf(path_result.parts, BeforeLastSep, field_path_separator)

C7_Witness ==
    /\ PathParsed
    /\ path_result.ok
    /\ Len(path_result.parts) >= 2
    /\ \A k \in 1..Len(path_result.parts) : path_result.parts[k] # <<>>

\* C8: parse_search_path fails exactly when the field name would be empty:
\* the expression is empty, is the separator, or ends with the separator;
\* otherwise it succeeds with a non-empty field name.
C8_ErrorIffEmptyFieldName ==
    PathParsed =>
        /\ ~path_result.ok <=>
              \/ search_path = <<>>
              \/ search_path = field_path_separator
              \/ EndsWith(search_path, field_path_separator)
        /\ ~path_result.ok => path_result.err = MalformedPath
        /\ path_result.ok => path_result.name # <<>>

C8_Witness ==
    /\ PathParsed
    /\ ~path_result.ok
    /\ field_path_separator # <<>>
    /\ Len(search_path) > Len(field_path_separator)
    /\ EndsWith(search_path, field_path_separator)

\* C9: for an accepted expression the ancestor segments joined by the
\* separator give back the part before the last separator, and with the
\* separator and the field name appended they give back the expression.
C9_JoinRoundTrip ==
    (PathParsed /\ path_result.ok /\ path_result.parts # <<>>) =>
        /\ Join(path_result.parts, field_path_separator) = BeforeLastSep
        /\ Join(path_result.parts, field_path_separator)
              \o field_path_separator \o path_result.name = search_path

C9_Witness ==
    /\ PathParsed
    /\ path_result.ok
    /\ Len(path_result.parts) >= 2
    /\ \E k \in 1..Len(path_result.parts) : path_result.parts[k] = <<>>

(***************************************************************************)
(* Claims about the numeric term parser, checked under SpecTerm.           *)
(***************************************************************************)
SingleParsed == pc = "single_parsed"

\* the operators of a single comparison, as written and as parsed
OperatorNames ==
    { <<<<"<", "=">>, "LessThanOrEqual">>, <<<<">", "=">>, "GreaterThanOrEqual">>,
      <<<<"=", "=">>, "Equal">>, <<<<"<">>, "LessThan">>, <<<<">">>, "GreaterThan">> }

\* C10: a term made of one operator among <=, >=, ==, <, > and a number
\* parses to the single comparison of that operator and that number, and a
\* term that starts with <= or >= is never parsed as < or > with a remainder.
C10_SingleComparisonParsed ==
    SingleParsed =>
        /\ \A on \in OperatorNames :
              LET rest == Slice(search_term, Len(on[1]), Len(search_term))
              IN  (StartsWith(search_term, on[1]) /\ ParseF64(rest).some) =>
                      term_result = Some(SingleComparison(on[2], ParseF64(rest).val))
        /\ (StartsWith(search_term, <<"<", "=">>) /\ term_result.some) =>
               term_result.val.op = "LessThanOrEqual"
        /\ (StartsWith(search_term, <<">", "=">>) /\ term_result.some) =>
               term_result.val.op = "GreaterThanOrEqual"

C10_Witness ==
    /\ SingleParsed
    /\ search_term = <<">", "=", "-", "1", "1">>
    /\ term_result = Some(SingleComparison("GreaterThanOrEqual", -11))

RangeParsed == pc = "range_parsed"

\* the operators a range takes, each with the name it parses to
RangeOperatorNames == {on \in OperatorNames : on[2] # "Equal"}

\* the ways to read the term as operator, numeral, operator, numeral with
\* nothing left over: <<name1, number1, name2, number2>>
RangeForms(names) ==
    {<<on1[2], ParseF64(Slice(search_term, Len(on1[1]), i)).val,
       on2[2], ParseF64(Slice(search_term, i + Len(on2[1]), Len(search_term))).val>> :
        <<on1, on2, i>> \in
            {f \in names \X names \X (0..Len(search_term)) :
                /\ StartsWith(search_term, f[1][1])
                /\ Len(f[1][1]) <= f[3]
                /\ OccursAt(search_term, f[2][1], f[3])
                /\ ParseF64(Slice(search_term, Len(f[1][1]), f[3])).some
                /\ ParseF64(Slice(search_term, f[3] + Len(f[2][1]),
                                  Len(search_term))).some}}

\* C11: a term parses to a range comparison exactly when it reads as
\* operator, numeral, operator, numeral with both operators among <=, >=, <,
\* > and nothing left over; the parsed operators and numbers are those of
\* the text in its order, == is never a range operator, and the two
\* operands may come in any order.
C11_RangeComparisonParsed ==
    RangeParsed =>
        /\ term_result # Panicked
        /\ term_result.some <=> RangeForms(RangeOperatorNames) # {}
        /\ \A f \in RangeForms(RangeOperatorNames) :
              term_result = Some(RangeComparison(f[1], f[2], f[3], f[4]))
        /\ RangeForms(OperatorNames) # RangeForms(RangeOperatorNames) => ~term_result.some

C11_Witness ==
    /\ RangeParsed
    /\ search_term = <<"<", "-", "1", ">", "=", "1">>
    /\ term_result = Some(RangeComparison("LessThan", -1, "GreaterThanOrEqual", 1))

TermParsed == pc = "term_parsed"

\* the ways to read the term as one operator and a numeral
SingleForms ==
    {<<on[2], ParseF64(Slice(search_term, Len(on[1]), Len(search_term))).val>> :
        on \in {f \in OperatorNames :
                   /\ StartsWith(search_term, f[1])
                   /\ ParseF64(Slice(search_term, Len(f[1]), Len(search_term))).some}}

\* terms that are no numeric term: empty, operators only, a trailing
\* operator, an unsupported operator, a number without an operator
NonNumericTerms ==
    { <<>>, <<"<">>, <<">", "=">>, <<"=", "=">>, <<"<", ">">>, <<">", "1", "<">>,
      <<"<", "=", "1", ">", "=">>, <<"=", "1">>, <<"=", "<", "1">>, <<"1">>,
      <<"-", "1">>, <<"1", "1">> }

\* C12: from_search_term gives a result for every string and never stops
\* the program: a range when the term reads as one, otherwise a single
\* comparison when it reads as one, otherwise None; the empty string,
\* operators alone, a trailing operator, an unsupported operator and a
\* bare number all give None.
C12_FromSearchTermTotal ==
    TermParsed =>
        /\ term_result # Panicked
        /\ \A f \in RangeForms(RangeOperatorNames) :
              term_result = Some(RangeComparison(f[1], f[2], f[3], f[4]))
        /\ RangeForms(RangeOperatorNames) = {} =>
              \A f \in SingleForms : term_result = Some(SingleComparison(f[1], f[2]))
        /\ (RangeForms(RangeOperatorNames) = {} /\ SingleForms = {}) => term_result = None
        /\ search_term \in NonNumericTerms => term_result = None

C12_Witness ==
    /\ TermParsed
    /\ search_term = <<"<", "=", "1", ">", "=">>
    /\ term_result = None

(***************************************************************************)
(* Claims about the path matcher, checked under SpecCheck.                 *)
(***************************************************************************)
Checked == pc = "checked"

\* sub occurs in s in order: an increasing choice of places of s spells sub
IsSubsequence(sub, s) ==
    \E at \in [1..Len(sub) -> 1..Len(s)] :
        /\ \A i, j \in 1..Len(sub) : i < j => at[i] < at[j]
        /\ \A i \in 1..Len(sub) : s[at[i]] = sub[i]

\* the checked object holds the target field with a value the predicate takes
FieldSatisfies(entries) ==
    /\ MapGet(entries, field_name).some
    /\ ValueMatches(MapGet(entries, field_name).val, Context)

\* C2: for a non-empty ancestor specification the path matcher accepts the
\* accumulated path exactly when the specification's literals occur in it in
\* order, contiguous or not, at its end or not: an object whose field
\* satisfies the predicate gives a result exactly then, and no object gives
\* one otherwise.
C2_AcceptsIffSubsequence ==
    (Checked /\ field_path_parts # <<>>) =>
        /\ results.val # <<>> => IsSubsequence(field_path_parts, current_path)
        /\ (FieldSatisfies(json_value.entries)
               /\ IsSubsequence(field_path_parts, current_path)) => results.val # <<>>

C2_Witness ==
    /\ Checked
    /\ field_path_parts = << <<"a">>, <<"a">> >>
    /\ current_path = << <<"a">>, <<"0">>, <<"a">>, <<"0">> >>
    /\ results.val # <<>>

(***************************************************************************)
(* Claims about the value predicate, checked under SpecValue.              *)
(***************************************************************************)
FieldChecked == pc = "field_checked"
TermMatched == pc = "term_matched"

\* the value of the checked field
FieldValue == json_value.entries[1].value

\* the ordinary meaning of the operators
Holds(x, op, n) ==
    CASE op = <<"<">> -> x < n
      [] op = <<"<", "=">> -> x <= n
      [] op = <<">">> -> x > n
      [] op = <<">", "=">> -> x >= n
      [] op = <<"=", "=">> -> x = n

\* the ways to cut the term into an operator and a numeral: <<op, numeral>>
SingleCuts ==
    {<<op, Slice(search_term, Len(op), Len(search_term))>> :
        op \in {o \in OperatorTexts :
                   /\ StartsWith(search_term, o)
                   /\ ParseF64(Slice(search_term, Len(o), Len(search_term))).some}}

\* the ways to cut the term into operator, numeral, operator, numeral
RangeCuts ==
    {<<f[1], Slice(search_term, Len(f[1]), f[3]),
       f[2], Slice(search_term, f[3] + Len(f[2]), Len(search_term))>> :
        f \in {g \in RangeOperatorTexts \X RangeOperatorTexts \X (0..Len(search_term)) :
                  /\ StartsWith(search_term, g[1])
                  /\ Len(g[1]) <= g[3]
                  /\ OccursAt(search_term, g[2], g[3])
                  /\ ParseF64(Slice(search_term, Len(g[1]), g[3])).some
                  /\ ParseF64(Slice(search_term, g[3] + Len(g[2]),
                                    Len(search_term))).some}}

\* the field check of parse.rs ran in numeric mode on a number
NumberChecked == FieldChecked /\ numeric_search /\ FieldValue.t = "Number"

\* the field check gave a result
Matched == results.val # <<>>

\* the field check of the same object with another term
MatchedWith(term) ==
    CheckObjectMatch(json_value.entries, field_path_parts, field_name, current_path,
                     SearchContext(term, single, hide_value, field_path_separator,
                                   numeric_search)) # <<>>

\* C13: in numeric mode a term that is neither a range nor a single
\* comparison is used as a regular expression on the field's stringified
\* value: the field gives a result exactly when the regex finds a match.
C13_NumericFallsBackToRegex ==
    (FieldChecked /\ numeric_search /\ FromSearchTerm(search_term) = None) =>
        (Matched <=> IsMatch(search_term, ValueToString(FieldValue)))

\* C14: a single comparison of operator op and number n matches the number
\* x exactly when x op n holds, for <, <=, >, >= and ==.
C14_SingleComparisonMeaning ==
    \A c \in SingleCuts :
        /\ NumberChecked => (Matched <=> Holds(FieldValue.n, c[1], ParseF64(c[2]).val))
        /\ TermMatched => term_result.val = Holds(FieldValue.n, c[1], ParseF64(c[2]).val)

C14_Witness ==
    /\ NumberChecked
    /\ search_term = <<"<", "=", "1">>
    /\ FieldValue = JNumber(1)
    /\ results = Some(<< <<"a", ":", " ", "1">> >>)

\* C15: a range matches the number x exactly when both of its comparisons
\* hold of x, the range with its two comparisons swapped gives the same
\* outcome, and >=10<20 matches 10 and does not match 20.
C15_RangeIsConjunction ==
    /\ \A c \in RangeCuts :
          LET both == /\ Holds(FieldValue.n, c[1], ParseF64(c[2]).val)
                      /\ Holds(FieldValue.n, c[3], ParseF64(c[4]).val)
              swapped == c[3] \o c[4] \o c[1] \o c[2]
          IN  /\ NumberChecked => /\ Matched <=> both
                                  /\ Matched <=> MatchedWith(swapped)
              /\ TermMatched =>
                    /\ term_result.val = both
                    /\ term_result.val = Matches(FromSearchTerm(swapped).val, FieldValue.n)
    /\ (NumberChecked /\ search_term = <<">", "=", "1", "0", "<", "2", "0">>) =>
          /\ FieldValue = JNumber(10) => Matched
          /\ FieldValue = JNumber(20) => ~Matched

C15_Witness ==
    /\ NumberChecked
    /\ search_term = <<">", "=", "1", "0", "<", "2", "0">>
    /\ FieldValue = JNumber(10)
    /\ Matched

\* C16: under a numeric predicate a field whose value is no JSON number (a
\* string, also one that reads as a number, a boolean, null, an array or an
\* object) gives no result, and the check ends normally with none.
C16_NonNumberNeverMatches ==
    (FieldChecked /\ numeric_search /\ FromSearchTerm(search_term).some
        /\ FieldValue.t # "Number") => results = Some(<<>>)

C16_Witness ==
    /\ FieldChecked /\ numeric_search
    /\ search_term = <<"=", "=", "1">>
    /\ FieldValue = JString(<<"1">>)
    /\ results = Some(<<>>)

\* the text of a string, a number or a boolean: the string's own
\* characters, the number's digits, true or false
NaturalText(value) ==
    CASE value.t = "String" -> value.s
      [] value.t = "Number" -> NumberToString(value.n)
      [] value.t = "Bool" ->
            IF value.b THEN <<"t", "r", "u", "e">> ELSE <<"f", "a", "l", "s", "e">>

\* C18: under a regex predicate the text the regex is tried on is the
\* value's stringification, a string being exactly its content with no
\* quote added or removed and a number or boolean its natural text; the
\* field gives a result exactly when the regex matches somewhere in it.
C18_RegexOnStringification ==
    (FieldChecked /\ ~numeric_search /\ FieldValue.t \in {"String", "Number", "Bool"}) =>
        (Matched <=> IsMatch(search_term, NaturalText(FieldValue)))

(***************************************************************************)
(* Claims about the search of a document, checked under Spec.  The nodes   *)
(* of the document are named by positions: the sequence of child numbers   *)
(* that leads from the root to the node.                                   *)
(***************************************************************************)
Searched == pc = "searched"

\* the list the search returned, empty when it returned None
ResultList == IF results.some /\ results.val.some THEN results.val.val ELSE <<>>

ResultSet == {ResultList[i] : i \in 1..Len(ResultList)}

IsContainer(v) == v.t \in {"Object", "Array"}

\* the children of a node, in iteration order
Children(v) ==
    CASE v.t = "Object" -> [k \in 1..Len(v.entries) |-> v.entries[k].value]
      [] v.t = "Array" -> v.items
      [] OTHER -> <<>>

\* the path segment of the k-th child: its key, or its index in base 10
Segment(v, k) == IF v.t = "Object" THEN v.entries[k].key ELSE NatToString(k - 1)

RECURSIVE Positions(_)
Positions(v) ==
    {<<>>} \cup UNION {{<<k>> \o p : p \in Positions(Children(v)[k])} :
                          k \in 1..Len(Children(v))}

RECURSIVE NodeAt(_, _)
NodeAt(v, pos) == IF pos = <<>> THEN v ELSE NodeAt(Children(v)[pos[1]], Tail(pos))

\* the keys and indices from the root to the node at pos
RECURSIVE SegmentsTo(_, _)
SegmentsTo(v, pos) ==
    IF pos = <<>> THEN <<>>
    ELSE <<Segment(v, pos[1])>> \o SegmentsTo(Children(v)[pos[1]], Tail(pos))

ObjectPositions == {p \in Positions(json_value) : NodeAt(json_value, p).t = "Object"}

FieldValueAt(pos) == MapGet(NodeAt(json_value, pos).entries, field_name)

\* the object nodes whose path the matcher accepts, that hold the target
\* field, with a value that satisfies the predicate
MatchingPositions ==
    {p \in ObjectPositions :
        /\ PathMatches(field_path_parts, SegmentsTo(json_value, p))
        /\ FieldValueAt(p).some
        /\ ValueMatches(FieldValueAt(p).val, Context)}

\* a result as the code renders it for the object at pos
RenderedAt(pos) ==
    OutputString(SegmentsTo(json_value, pos), field_name, FieldValueAt(pos).val, Context)

\* a result that carries the path to the field and the field's value as it is
FaithfulAt(pos) ==
    Join(SegmentsTo(json_value, pos) \o <<field_name>>, field_path_separator)
       \o (IF hide_value THEN <<>>
           ELSE <<":", " ">> \o ValueToString(FieldValueAt(pos).val))

\* C1: without single mode the search returns one result for each object
\* node whose path the matcher accepts and whose target field satisfies the
\* predicate, and nothing else; a result is the path from the root to the
\* object followed by the field name, and the value of that field.
C1_OneFaithfulResultPerMatch ==
    (Searched /\ ~single) =>
        /\ Len(ResultList) = Cardinality(MatchingPositions)
        /\ ResultSet = {FaithfulAt(p) : p \in MatchingPositions}

\* C3: with the empty ancestor specification every object node of the
\* document, at any depth, is in scope: the results are those of all the
\* object nodes that hold the target field with a satisfying value.
C3_EmptySpecMatchesAnywhere ==
    (Searched /\ ~single /\ field_path_parts = <<>>) =>
        LET anywhere == {p \in ObjectPositions :
                            /\ FieldValueAt(p).some
                            /\ ValueMatches(FieldValueAt(p).val, Context)}
        IN  /\ ResultSet = {RenderedAt(p) : p \in anywhere}
            /\ Len(ResultList) = Cardinality(anywhere)

C3_Witness ==
    /\ Searched /\ ~single /\ field_path_parts = <<>>
    /\ Len(ResultList) >= 2
    /\ \E p \in MatchingPositions : Len(p) >= 2

\* what the same query returns without single mode
FullResults ==
    LET r == ProcessJsonInput(json_value, field_path_parts, field_name,
                              SearchContext(search_term, FALSE, hide_value,
                                            field_path_separator, numeric_search))
    IN  IF r.some THEN r.val ELSE <<>>

\* C4: in single mode the search returns at most one result: none when the
\* full result list of the same query is empty, and otherwise the first
\* element of that list.
C4_SingleIsFirstOfFull ==
    (Searched /\ single) =>
        /\ Len(ResultList) <= 1
        /\ ResultList = <<>> <=> FullResults = <<>>
        /\ FullResults # <<>> => ResultList = <<FullResults[1]>>
        /\ results.val.some => results.val.val # <<>>

C4_Witness ==
    /\ Searched /\ single
    /\ Len(FullResults) >= 3
    /\ ResultList = <<FullResults[1]>>

\* p is discovered before q: p lies below q, or p lies in an earlier child
\* than q of the node where their ways part
DiscoveredBefore(p, q) ==
    \/ Len(q) < Len(p) /\ SubSeq(p, 1, Len(q)) = q
    \/ \E k \in 1..Len(p) :
          /\ k <= Len(q)
          /\ SubSeq(p, 1, k - 1) = SubSeq(q, 1, k - 1)
          /\ p[k] < q[k]

RECURSIVE InDiscoveryOrder(_)
InDiscoveryOrder(set) ==
    IF set = {} THEN <<>>
    ELSE LET first == CHOOSE p \in set : \A q \in set \ {p} : DiscoveredBefore(p, q)
         IN  <<first>> \o InDiscoveryOrder(set \ {first})

\* C5: without single mode the results are in the order of discovery: the
\* results of an object's children in key order, then the object's own; the
\* results of an array's elements in index order.
C5_ResultsInDiscoveryOrder ==
    (Searched /\ ~single) =>
        LET order == InDiscoveryOrder(MatchingPositions)
        IN  ResultList = [i \in 1..Len(order) |-> RenderedAt(order[i])]

C5_Witness ==
    /\ Searched /\ ~single
    /\ Len(ResultList) = 3
    /\ MatchingPositions = {<<>>, <<1>>, <<2>>}
    /\ ResultList[3] = RenderedAt(<<>>)
    /\ ResultList[1] = RenderedAt(<<1>>)
    /\ ResultList[2] = RenderedAt(<<2>>)

\* the path of a result: the result itself when values are hidden, and else
\* what precedes the ": " that introduces the value
PathText(r) ==
    IF hide_value THEN r
    ELSE LET at == Find(r, <<":", " ">>)
         IN  IF at.some THEN Slice(r, 0, at.val) ELSE r

\* the root is an object whose own field gives a result
RootMatches == <<>> \in MatchingPositions

\* C6: the path of every result is non-empty and ends with the target field
\* name as its last segment; the path of a field of the root object is the
\* field name alone, with no separator before it.
C6_PathEndsWithFieldName ==
    Searched =>
        /\ \A i \in 1..Len(ResultList) :
              LET segments == Split(PathText(ResultList[i]), field_path_separator)
              IN  /\ PathText(ResultList[i]) # <<>>
                  /\ segments[Len(segments)] = field_name
        /\ (RootMatches /\ ~single) => PathText(ResultList[Len(ResultList)]) = field_name
        /\ (RootMatches /\ single /\ Cardinality(MatchingPositions) = 1) =>
               PathText(ResultList[1]) = field_name

C6_Witness ==
    /\ Searched /\ ~single /\ RootMatches
    /\ Len(ResultList) >= 2
    /\ ~hide_value
    /\ ResultList[Len(ResultList)] = <<"a", ":", " ", "1">>

\* the object nodes whose path the matcher accepts but that have no target
\* field among their keys
FieldlessPositions ==
    {p \in ObjectPositions :
        /\ PathMatches(field_path_parts, SegmentsTo(json_value, p))
        /\ \A k \in 1..Len(NodeAt(json_value, p).entries) :
              NodeAt(json_value, p).entries[k].key # field_name}

\* the path a result of the object at pos would carry
OwnPathText(pos) ==
    Join(SegmentsTo(json_value, pos) \o <<field_name>>, field_path_separator)

\* C17: an object whose path the matcher accepts but that lacks the target
\* field gives no result of its own and no error: the search ends normally,
\* and the results of the other nodes are all returned (the first of them
\* in single mode).
C17_MissingFieldContributesNothing ==
    (Searched /\ FieldlessPositions # {}) =>
        /\ results.some /\ (results.val = None <=> MatchingPositions = {})
        /\ \A p \in FieldlessPositions :
              \A i \in 1..Len(ResultList) : PathText(ResultList[i]) # OwnPathText(p)
        /\ ~single => /\ Len(ResultList) = Cardinality(MatchingPositions)
                      /\ \A q \in MatchingPositions : RenderedAt(q) \in ResultSet
        /\ single => (ResultList # <<>> <=> MatchingPositions # {})

C17_Witness ==
    /\ Searched /\ ~single
    /\ <<>> \in FieldlessPositions
    /\ <<1>> \in MatchingPositions
    /\ ResultList = <<RenderedAt(<<1>>)>>

(***************************************************************************)
(* Claims about a run of the program, checked under SpecMain.              *)
(***************************************************************************)
\* the file can be read and its text is JSON
IsGoodFile(file) == file.content # Unreadable /\ file.content # InvalidJson

\* the lines a readable file of valid JSON is due: its results, or its path
\* for each of them, only the first one in single mode
LinesDue(file) ==
    LET found == ProcessJsonInput(file.content, field_path_parts, field_name, Context)
    IN  IF found.some
        THEN PrintedLines(file.path, found.val, single, path_output)
        ELSE <<>>

\* the lines due to the first n files, a file that cannot be read or parsed
\* being due none
RECURSIVE LinesDueUpTo(_)
LinesDueUpTo(n) ==
    IF n = 0 THEN <<>>
    ELSE LinesDueUpTo(n - 1)
            \o (IF IsGoodFile(json_files[n]) THEN LinesDue(json_files[n]) ELSE <<>>)

\* C19: text that is no valid JSON gives no result and does not stop the
\* program; in a run over files, a file that cannot be read or parsed adds
\* no line to the output, and every file after it is still read and its
\* results printed.
C19_BadInputContributesNothing ==
    /\ (pc \in {"parsed", "done"} /\ json_files # <<>>) =>
          /\ stdout = LinesDueUpTo(file_index)
          /\ reads = [k \in 1..file_index |-> json_files[k].path]
          /\ exit_code = None
          /\ pc = "done" <=> file_index = Len(json_files)
    /\ (pc = "done" /\ json_files = <<>> /\ json_string = Some(InvalidJson)) =>
          /\ stdout = <<>>
          /\ exit_code = None

C19_Witness ==
    /\ pc = "done"
    /\ ~single /\ ~path_output /\ ~hide_value
    /\ Len(json_files) = 3
    /\ json_files[1].content = InvalidJson
    /\ json_files[2].content = Unreadable
    /\ json_files[3].content = DocTwo
    /\ stdout = << <<"0", ".", "a", ":", " ", ">", "0">>,
                   <<"1", ".", "a", ":", " ", ">", "0", "0">> >>

\* the query has no colon, or no field name before the colon, or nothing
\* but spaces after it
Malformed ==
    LET colons == {i \in 1..Len(search_term_raw) : search_term_raw[i] = ":"}
    IN  \/ colons = {}
        \/ LET c == CHOOSE i \in colons : \A j \in colons : i <= j
           IN  \/ c = 1
               \/ search_term_raw[c - 1] = "."
               \/ \A j \in (c + 1)..Len(search_term_raw) : search_term_raw[j] = " "

\* C20: when the query cannot be parsed the program reports the error and
\* exits before it reads any input or searches any document: such a run
\* never reads and never prints a result.
C20_ParseErrorStopsTheRun ==
    /\ pc = "start" => (reads = <<>> /\ stdout = <<>>)
    /\ (Malformed /\ pc # "start") =>
          /\ pc = "exited"
          /\ exit_code = Some(1)
          /\ stderr = <<QueryError>>
          /\ reads = <<>>
          /\ stdout = <<>>
          /\ file_index = 0

C20_Witness ==
    /\ pc = "exited"
    /\ search_term_raw = <<"a", ".", ":", ">", "0">>
    /\ Len(json_files) = 2
    /\ json_files[1].content = DocOne
    /\ reads = <<>>
    /\ stdout = <<>>
    /\ exit_code = Some(1)

\* stdin has been read
StdinRead == \E i \in 1..Len(reads) : reads[i] = <<"s", "t", "d", "i", "n">>

\* C21: when at least one file is given only the files are searched: what is
\* read are the files, what is printed are the lines due to them whatever
\* --json-string holds, and stdin is never read; stdin is read exactly in the
\* runs with a well-formed query, no file and no --json-string, and a run
\* with --json-string and no file reads nothing and prints the results of
\* that string.
C21_FilesTakePrecedence ==
    /\ json_files # <<>> =>
          /\ ~StdinRead
          /\ file_index <= Len(json_files)
          /\ reads = [k \in 1..file_index |-> json_files[k].path]
          /\ ~Malformed => stdout = LinesDueUpTo(file_index)
          /\ pc = "done" => file_index = Len(json_files)
    /\ StdinRead <=> /\ json_files = <<>>
                     /\ json_string = None
                     /\ ~Malformed
                     /\ pc \in {"done", "exited"}
    /\ (json_files = <<>> /\ json_string # None) =>
          /\ reads = <<>>
          /\ file_index = 0
          /\ pc = "done" =>
                stdout = ResultVec(ProcessJsonInput(json_string.val, field_path_parts,
                                                    field_name, Context))

C21_Witness ==
    /\ pc = "done"
    /\ Len(json_files) = 2
    /\ json_files[1].content = DocOne
    /\ json_files[2].content = DocNone
    /\ json_string = Some(DocOne)
    /\ stdin = DocTwo
    /\ ~single /\ ~path_output /\ ~hide_value
    /\ stdout = << <<"a", ":", " ", ">", "0">> >>

\* every result the query has in a file, single mode or not
AllResultsIn(file) ==
    IF IsGoodFile(file)
    THEN ResultVec(ProcessJsonInput(file.content, field_path_parts, field_name,
                                    SearchContext(search_term, FALSE, hide_value,
                                                  field_path_separator,
                                                  numeric_search)))
    ELSE <<>>

\* one line for each of the first n files that has a match: the file's path
\* under path-output, its first result otherwise
RECURSIVE OneLinePerMatchingFile(_)
OneLinePerMatchingFile(n) ==
    IF n = 0 THEN <<>>
    ELSE LET file == json_files[n]
             found == AllResultsIn(file)
         IN  OneLinePerMatchingFile(n - 1)
                \o (IF found = <<>> THEN <<>>
                    ELSE IF path_output THEN <<file.path>> ELSE <<found[1]>>)

\* C22: over files in single mode every file with at least one match gets
\* exactly one line and every other file none, in the order of the files;
\* a match in a file does not end the run, which goes through all the files.
C22_OneLinePerFileInSingleMode ==
    (single /\ json_files # <<>> /\ ~Malformed) =>
        /\ stdout = OneLinePerMatchingFile(file_index)
        /\ pc = "done" => file_index = Len(json_files)

C22_Witness ==
    /\ pc = "done"
    /\ single /\ ~path_output /\ ~hide_value
    /\ Len(json_files) = 3
    /\ json_files[1].content = DocTwo
    /\ json_files[2].content = DocNone
    /\ json_files[3].content = DocOne
    /\ stdout = << <<"0", ".", "a", ":", " ", ">", "0">>,
                   <<"a", ":", " ", ">", "0">> >>

\* how many of the printed lines are the line l
TimesPrinted(l) == Cardinality({i \in 1..Len(stdout) : stdout[i] = l})

\* C28: over files under path-output and without single mode, the only
\* lines printed are paths of the files, and the path of every file handled
\* so far is printed once for each match of the query in the file: k times
\* for k matches, never for a file without a match.
C28_PathPrintedOncePerMatch ==
    (path_output /\ ~single /\ json_files # <<>> /\ ~Malformed) =>
        /\ \A k \in 1..file_index :
              TimesPrinted(json_files[k].path) = Len(AllResultsIn(json_files[k]))
        /\ \A i \in 1..Len(stdout) :
              \E k \in 1..file_index : stdout[i] = json_files[k].path
        /\ \A i, j \in 1..Len(stdout) :
              i < j => \E k, l \in 1..file_index :
                          /\ k <= l
                          /\ stdout[i] = json_files[k].path
                          /\ stdout[j] = json_files[l].path

C28_Witness ==
    /\ pc = "done"
    /\ path_output /\ ~single
    /\ Len(json_files) = 3
    /\ json_files[1].content = DocTwo
    /\ json_files[2].content = DocNone
    /\ json_files[3].content = DocOne
    /\ Len(AllResultsIn(json_files[1])) = 2
    /\ stdout = << <<"f", "1">>, <<"f", "1">>, <<"f", "3">> >>

(***************************************************************************)
(* Empty ancestor segments of parse_search_path, checked under SpecPath.   *)
(***************************************************************************)
\* two occurrences of the separator, the second one where the first one ends
AdjacentSeparators ==
    \E i \in SepOffsets : (i + Len(field_path_separator)) \in SepOffsets

HasEmptySegment == \E k \in 1..Len(path_result.parts) : path_result.parts[k] = <<>>

\* no proper prefix of the separator is also its suffix: two occurrences of
\* it never overlap (every one-character separator is of this kind)
NonOverlapping(sep) ==
    \A n \in 1..(Len(sep) - 1) : Slice(sep, 0, n) # Slice(sep, Len(sep) - n, Len(sep))

\* C27 as stated: for a non-empty separator a successful parse has no
\* ancestor segment exactly when the separator does not occur, and an
\* expression that begins with the separator or holds two adjacent
\* separators has an empty ancestor segment.
C27_EmptySegmentsKept ==
    (PathParsed /\ path_result.ok /\ field_path_separator # <<>>) =>
        /\ path_result.parts = <<>> <=> SepOffsets = {}
        /\ StartsWith(search_path, field_path_separator) => path_result.parts[1] = <<>>
        /\ AdjacentSeparators => HasEmptySegment

\* C27, amended: the first part holds for every non-empty separator; the
\* empty segment for a leading separator and for adjacent separators is
\* there whenever occurrences of the separator cannot overlap.
C27_EmptySegmentsKeptWithoutOverlap ==
    (PathParsed /\ path_result.ok /\ field_path_separator # <<>>) =>
        /\ path_result.parts = <<>> <=> SepOffsets = {}
        /\ NonOverlapping(field_path_separator) =>
              /\ StartsWith(search_path, field_path_separator) =>
                    path_result.parts[1] = <<>>
              /\ AdjacentSeparators => HasEmptySegment

C27_Witness ==
    /\ PathParsed
    /\ path_result.ok
    /\ field_path_separator = <<".">>
    /\ search_path = <<".", "a", ".", ".", "b">>
    /\ path_result.parts = << <<>>, <<"a">>, <<>> >>

(***************************************************************************)
(* Claims about format_text_output, checked under SpecFormat.              *)
(***************************************************************************)
Formatted == pc = "formatted"

\* the segments of the result joined by the separator
JoinedPath == Join(result.json_path, field_path_separator)

\* C23: a result is rendered as the file path when path-output is set and
\* there is a file path, whatever hide-value is; otherwise as the joined
\* path alone under hide-value, and as the joined path, a colon, a space and
\* the value without it; with no file path, path-output changes nothing.
C23_RenderingByCase ==
    Formatted =>
        /\ (path_output /\ source_file # None) => formatted.val = source_file.val
        /\ (~(path_output /\ source_file # None) /\ hide_value) =>
              formatted.val = JoinedPath
        /\ (~(path_output /\ source_file # None) /\ ~hide_value) =>
              /\ Len(formatted.val) = Len(JoinedPath) + 2 + Len(result.value)
              /\ Slice(formatted.val, 0, Len(JoinedPath)) = JoinedPath
              /\ Slice(formatted.val, Len(JoinedPath), Len(JoinedPath) + 2) = <<":", " ">>
              /\ Slice(formatted.val, Len(JoinedPath) + 2, Len(formatted.val))
                    = result.value
        /\ source_file = None =>
              formatted.val = FormatTextOutput(result, None,
                                               FormatContext(field_path_separator,
                                                             hide_value, ~path_output))

C23_Witness ==
    /\ Formatted
    /\ path_output /\ hide_value
    /\ source_file = Some(<<"f">>)
    /\ result = SearchResult(<< <<"a">>, <<"0">> >>, <<"x">>)
    /\ formatted.val = <<"f">>

(***************************************************************************)
(* Claims about remove_whitespace, checked under SpecWs.                   *)
(***************************************************************************)
\* the positions of the text whose character is no whitespace
KeptPositions(txt) == {i \in 1..Len(txt) : txt[i] \notin {" ", "\t", "\n", "\r"}}

\* the characters of the text at the kept positions, in their order
KeptText(txt) ==
    LET kept == KeptPositions(txt)
        nth(k) == CHOOSE i \in kept : Cardinality({j \in kept : j < i}) = k - 1
    IN  [k \in 1..Cardinality(kept) |-> txt[nth(k)]]

\* C24: remove_whitespace returns the characters of the input that are no
\* whitespace, in their order: the result holds no whitespace, is the input
\* when the input holds none, and a second application changes nothing.
C24_RemovesExactlyWhitespace ==
    /\ pc = "stripped" =>
          /\ stripped.val = KeptText(input_text)
          /\ KeptPositions(stripped.val) = 1..Len(stripped.val)
          /\ KeptPositions(input_text) = 1..Len(input_text) => stripped.val = input_text
    /\ pc = "stripped_again" => stripped.val = input_text

C24_Witness ==
    /\ pc = "stripped"
    /\ input_text = <<" ", "a", "\t", "b">>
    /\ stripped.val = <<"a", "b">>

(***************************************************************************)
(* Claims about the traversal, checked under SpecWalk.                     *)
(***************************************************************************)
Walked == pc = "walked"

\* the search taken call by call returns what the search taken as a whole
\* returns
WalkAgreesWithSearch ==
    Walked => results.val = ProcessJsonInput(json_value, field_path_parts, field_name,
                                             Context)

\* C25: in single mode a result returned by the recursion into a child is
\* propagated at once: from the moment a call returns a result, every step
\* ends one more enclosing call with that same result, and no step visits a
\* further node or evaluates a field check, until the search as a whole
\* returns the result.
C25_ResultPropagatedAtOnce ==
    [][(single /\ returned.pending /\ returned.value.some) =>
          /\ events' = events
          /\ IF stack = <<>>
             THEN results' = Some(returned.value) /\ pc' = "walked"
             ELSE stack' = Callers /\ returned' = returned /\ pc' = pc]_vars

\* a result is on its way up through an object that has a later entry and
\* has not checked its own field, below another call
C25_Witness ==
    /\ single
    /\ returned.pending /\ returned.value.some
    /\ Len(stack) >= 2
    /\ Top.fn = "search_object"
    /\ Top.k < Len(Top.node.entries)

\* the frames above the bottom-most j - 1 ones wait for a call to return
AwaitsCall(j) == j < Len(stack) \/ returned.pending

\* C26: the path given to every call of search_json_value and of
\* check_object_match is the sequence of keys and indices, in base 10, from
\* the root to the node the call is about; between two of its recursive
\* calls an object holds no segment of a child in next_path.
C26_PathIsTheWayFromTheRoot ==
    /\ \A i \in 1..Len(events) :
          events[i].path = SegmentsTo(json_value, events[i].pos)
    /\ \A j \in 1..Len(stack) :
          /\ stack[j].current_path = SegmentsTo(json_value, stack[j].pos)
          /\ stack[j].next_path =
                IF stack[j].fn = "search_object" /\ AwaitsCall(j)
                THEN Append(stack[j].current_path,
                            stack[j].node.entries[stack[j].k].key)
                ELSE stack[j].current_path
    /\ \A i \in 1..Len(events) :
          (json_value = LongArray /\ Len(events[i].pos) >= 1 /\ events[i].pos[1] = 11)
              => events[i].path[1] = <<"1", "0">>

\* a later sibling is visited after a node below an earlier sibling
C26_Witness ==
    \E i, j \in 1..Len(events) :
        /\ j < i
        /\ events[i].kind = "visit" /\ events[i].pos = <<2>>
        /\ events[j].kind = "visit" /\ Len(events[j].pos) = 2
        /\ events[i].path = <<Segment(json_value, 2)>>

\* the positions at which an event of the kind has been recorded
EventPositions(kind) == {events[i].pos : i \in {j \in 1..Len(events) : events[j].kind = kind}}

\* the results held by the calls in progress, by the call that just
\* returned and by the finished search
RECURSIVE HeldByFrames(_)
HeldByFrames(n) == IF n = 0 THEN 0 ELSE HeldByFrames(n - 1) + Len(stack[n].results)

HeldResults ==
    HeldByFrames(Len(stack))
       + (IF returned.pending /\ returned.value.some THEN Len(returned.value.val) ELSE 0)
       + Len(ResultList)

\* C29: the field check is made on object nodes only and at most once on
\* each; results come from field checks alone, at most one from each, so an
\* array gives no result of its own even when one of its indices is the
\* field name, a document without an object gives none, and the results are
\* never more than the object nodes.
C29_OnlyObjectsAreChecked ==
    /\ \A p \in EventPositions("check") : NodeAt(json_value, p).t = "Object"
    /\ HeldResults <= Cardinality(EventPositions("check"))
    /\ Walked =>
          /\ Len(ResultList) <= Cardinality(ObjectPositions)
          /\ ObjectPositions = {} => results.val = None

C29_Witness ==
    /\ Walked
    /\ json_value = JArray(<<JString(<<Quote, ">", "0">>)>>)
    /\ field_name = <<"0">>
    /\ field_path_parts = <<>>
    /\ results.val = None

\* C30: the traversal of every document ends; no node is visited twice and
\* no object checked twice, and without single mode every node of the
\* document is visited and every object node checked.
C30_TraversalTerminates ==
    /\ <>Walked
    /\ [](\A i, j \in 1..Len(events) :
             (events[i].kind = events[j].kind /\ events[i].pos = events[j].pos) => i = j)
    /\ []((Walked /\ ~single /\ json_value # InvalidJson) =>
             /\ EventPositions("visit") = Positions(json_value)
             /\ EventPositions("check") = ObjectPositions
             /\ Len(events) = Cardinality(Positions(json_value))
                                 + Cardinality(ObjectPositions))

C30_Witness ==
    /\ Walked /\ ~single
    /\ results.val # None
    /\ Cardinality(Positions(json_value)) = 4
    /\ Cardinality(ObjectPositions) = 3
    /\ Len(events) = 7

====
